---- MODULE Spec2Model ----
(***************************************************************************)
(* Market Sentinel (src/market_sentinel/main.py, positions.py): the        *)
(* per-symbol decision loop, the position ledger, the trade log and the    *)
(* persisted state, as a state machine.                                    *)
(*                                                                         *)
(* Units.  Prices are whole dollars.  Quantities are micro-shares (the     *)
(* code rounds them to 6 decimals).  Trigger multipliers are per-mille     *)
(* (0.995 -> 995).  Times are minutes on the US/Eastern wall clock,        *)
(* counted from midnight of day 0; US/Pacific is PT_OFFSET minutes behind. *)
(***************************************************************************)
EXTENDS Integers, Sequences, FiniteSets, TLC

\* ---------------------------------------------------------------- bounds

\* Highest trade_id that uuid4 hands out in a run.
MaxTrades == 2
\* Last calendar day (US/Eastern) of a run; days are 0..MaxDay.
MaxDay == 1
\* Number of times the process is started again after it has gone down.
MaxRestarts == 1

\* ------------------------------------------------------- program constants

BUY_TRIGGER_A == 995
SELL_TRIGGER_A == 1090
STOP_MULTIPLIER_A == 300
BUY_TRIGGER_B == 980
SELL_TRIGGER_B == 1030
STOP_MULTIPLIER_B == 500
\* SELL_TRIGGER_B as overridden through the environment.
SELL_TRIGGER_ENV == 1000
\* RISK_PCT, per-mille.
RISK_PCT == 15
\* RESET_HOURS, in minutes.
RESET_MINUTES == 360
\* BASELINE_DRIFT and VOLATILITY_FILTER, per cent.
BASELINE_DRIFT == 5
VOLATILITY_FILTER == 2
\* SMA_PERIOD (environment SMA_PERIOD; the default of 20 is scaled down).
SMA_PERIOD == 2
\* LUNCH_START 11:30, LUNCH_END 13:00, MARKET_CLOSE 16:00, Eastern minutes.
LUNCH_START == 690
LUNCH_END == 780
MARKET_CLOSE == 960
\* Regular session opening reported by the broker clock, 09:30 Eastern.
MARKET_OPEN == 570
\* US/Pacific is three hours behind US/Eastern.
PT_OFFSET == 180
MinutesPerDay == 1440

\* ------------------------------------------------------------ input sets

\* The configuration read at start-up: the two symbol files and the sell
\* triggers.  DefaultConfig has the defaults of the source and lists X for
\* Bot A; EnvConfig lists X for Bot B and overrides SELL_TRIGGER_B;
\* TwoBotConfig has the defaults and lists X for Bot A and Y for Bot B.
DefaultConfig == [symbols_a |-> <<"X">>, symbols_b |-> <<>>,
                  sell_trigger_a |-> SELL_TRIGGER_A, sell_trigger_b |-> SELL_TRIGGER_B]
EnvConfig == [symbols_a |-> <<>>, symbols_b |-> <<"X">>,
              sell_trigger_a |-> SELL_TRIGGER_A, sell_trigger_b |-> SELL_TRIGGER_ENV]
TwoBotConfig == [symbols_a |-> <<"X">>, symbols_b |-> <<"Y">>,
                 sell_trigger_a |-> SELL_TRIGGER_A, sell_trigger_b |-> SELL_TRIGGER_B]
\* The symbols of a polling cycle in processing order: Bot A's, then Bot B's.
AllSymbols(c) == c.symbols_a \o c.symbols_b

\* Latest trade prices the broker reports; 0 stands for "no price".
Prices == {8, 10, 12}
NoPrice == 0
\* ATR values; 0 also stands for an unavailable ATR (calculate_atr() or 0).
ATRs == {0, 10}
\* Account cash reported by get_account.
CashValues == {1000}
\* Wall-clock instants (minutes of the day) at which the run is observed.
TimesOfDay == {600, 720}
TimePoints == {d * MinutesPerDay + t : d \in 0..MaxDay, t \in TimesOfDay}

\* --------------------------------------------------------------- clocks

\* datetime.now(ET).date() and datetime.now(PT).date() at instant t.
DateET(t) == t \div MinutesPerDay
DatePT(t) == (t - PT_OFFSET) \div MinutesPerDay
TimeOfDayET(t) == t % MinutesPerDay

is_lunch_time(t) == LUNCH_START <= TimeOfDayET(t) /\ TimeOfDayET(t) < LUNCH_END
is_market_close(t) == TimeOfDayET(t) >= MARKET_CLOSE
\* clock.is_open of the broker: the regular session.
ClockIsOpen(t) == MARKET_OPEN <= TimeOfDayET(t) /\ TimeOfDayET(t) < MARKET_CLOSE

\* isoformat() / fromisoformat() of a date or of an instant.
IsoFormat(t) == [iso |-> t]
FromIsoFormat(s) == s.iso

\* datetime.now(PT) as kept in the trade log, the ledger and the price
\* history.  Every reader of these timestamps takes a calendar date of them
\* and nothing else: .date() (Pacific) of trade-log rows, and
\* .astimezone(ET).date() of price-history rows.  A timestamp is therefore
\* kept as the pair of the two dates of its instant.
Timestamp(t) == [pt |-> DatePT(t), et |-> DateET(t)]
\* dt.date() of a parsed timestamp, and dt.astimezone(ET).date().
DateOf(ts) == ts.pt
DateInET(ts) == ts.et

\* ------------------------------------------------------------- variables

VARIABLES
    pc,                 \* position of the process: "down", "loop", "sym", "eod", "unit"
    starts,             \* number of times the process has been started
    idx,                \* index into AllSymbols of the symbol processed next
    cfg,                \* trigger configuration from the environment
    now,                \* wall clock, Eastern minutes
    nextId,             \* next value uuid4 returns
    broker,             \* positions held at the broker: symbol -> [qty, avg_entry]
    cash,               \* cash read by the running cycle
    open_positions,     \* the ledger: sequence (dict order) of records
    positions_file,     \* positions.json
    trade_log,          \* trade_log.csv: [header, rows]
    legacy_logs,        \* trade_log.legacy_<ts>.csv files
    baselines,          \* symbol -> [has, price, ts]
    baseline_file,      \* baselines.json
    price_windows,      \* symbol -> sequence of at most SMA_PERIOD prices
    price_history,      \* price_history.csv, per symbol, last SMA_PERIOD rows
    sma_state_file,     \* sma_state.json
    purchase_dates,     \* symbol -> date or NoDate
    purchase_dates_file,\* purchase_dates.json
    summary,            \* the day's summary lines
    sent_closing_email,
    last_trading_date,
    obs,                \* what the last step logged: inputs read and orders sent
    call                \* last direct call of a function (execute_buy, execute_sell,
                        \* log_trade, migrate_trade_log, compute_sma) and its result

vars == <<pc, starts, idx, cfg, now, nextId, broker, cash, open_positions, positions_file,
          trade_log, legacy_logs, baselines, baseline_file, price_windows,
          price_history, sma_state_file, purchase_dates, purchase_dates_file,
          summary, sent_closing_email, last_trading_date, obs, call>>

\* The symbols that botA_symbols.txt and botB_symbols.txt list: the keys of
\* the per-symbol maps of a run.
Symbols == {AllSymbols(cfg)[i] : i \in 1..Len(AllSymbols(cfg))}

\* ---------------------------------------------------------- empty values

NoDate == -1
NoTradeId == 0
NoBaseline == [has |-> FALSE, price |-> 0, ts |-> 0]
Flat == [qty |-> 0, avg_entry |-> 0]
EmptyMap(v) == [s \in Symbols |-> v]
NoFile == [exists |-> FALSE, data |-> <<>>]
NoDatedFile == [exists |-> FALSE, date |-> IsoFormat(NoDate), data |-> <<>>]
NoObs == [kind |-> "none"]
NoCall == [op |-> "none"]

\* A JSON file as a process leaves it that is killed inside the function
\* that saves it (save_baselines, save_positions): open(..., "w") has
\* truncated the file and the dump has not, or not wholly, reached it.
\* json.load raises on it.
TornFile == [exists |-> TRUE, torn |-> TRUE]
IsTorn(file) == "torn" \in DOMAIN file

\* -------------------------------------------------------------- helpers

Some(v) == <<v>>
Blank == <<>>
RECURSIVE SumSeq(_)
SumSeq(q) == IF q = <<>> THEN 0 ELSE Head(q) + SumSeq(Tail(q))
\* The last n elements of q: what a deque(maxlen=n) keeps of q.
LastN(q, n) == IF Len(q) <= n THEN q ELSE SubSeq(q, Len(q) - n + 1, Len(q))
Max(a, b) == IF a >= b THEN a ELSE b
Abs(a) == IF a >= 0 THEN a ELSE 0 - a
\* round(a / b): nearest integer.
RoundDiv(a, b) == (2 * a + b) \div (2 * b)

\* ------------------------------------------------------------ positions.py

\* save_positions as it would be if it wrote the newest record alone.
save_positions_Newest(positions) ==
    [exists |-> TRUE,
     data |-> [i \in 1..(IF positions = <<>> THEN 0 ELSE 1) |->
                  [trade_id |-> positions[Len(positions)].trade_id,
                   symbol |-> positions[Len(positions)].symbol,
                   quantity |-> positions[Len(positions)].quantity,
                   entry_price |-> positions[Len(positions)].entry_price,
                   open_time |-> IsoFormat(positions[Len(positions)].open_time)]]]

\* save_positions: the ledger as written to positions.json.
save_positions(positions) ==
    [exists |-> TRUE,
     data |-> [i \in 1..Len(positions) |->
                  [trade_id |-> positions[i].trade_id,
                   symbol |-> positions[i].symbol,
                   quantity |-> positions[i].quantity,
                   entry_price |-> positions[i].entry_price,
                   open_time |-> IsoFormat(positions[i].open_time)]]]

\* save_positions with the outcome of the write: an exception of open or
\* json.dump is logged and swallowed, and the file stays as it was.
write_positions(positions, file, disk) ==
    IF disk = "ok" THEN save_positions(positions) ELSE file

\* An isoformat string that datetime.fromisoformat parses; any other text
\* is [text |-> ...].
IsIso(x) == "iso" \in DOMAIN x

\* The entry of positions.json goes through lines 20-25 without an
\* exception: it has the four fields, and its open_time parses.
WellFormedEntry(e) ==
    /\ {"symbol", "quantity", "entry_price", "open_time"} \subseteq DOMAIN e
    /\ IsIso(e.open_time)

\* load_positions as it would be with one try/except around the whole loop:
\* a malformed entry ends the load with an empty ledger.
load_positions_AllOrNothing(file) ==
    IF ~file.exists \/ IsTorn(file) THEN <<>>
    ELSE IF \E i \in 1..Len(file.data) : ~WellFormedEntry(file.data[i]) THEN <<>>
    ELSE [i \in 1..Len(file.data) |->
             [trade_id |-> file.data[i].trade_id,
              symbol |-> file.data[i].symbol,
              quantity |-> file.data[i].quantity,
              entry_price |-> file.data[i].entry_price,
              open_time |-> FromIsoFormat(file.data[i].open_time)]]

\* load_positions: the ledger read back.  A missing file (FileNotFoundError)
\* and a file json.load cannot parse (except Exception) are an empty
\* ledger; an entry that raises is logged and skipped.
load_positions(file) ==
    IF ~file.exists \/ IsTorn(file) THEN <<>>
    ELSE LET good == SelectSeq(file.data, WellFormedEntry)
         IN  [i \in 1..Len(good) |->
                 [trade_id |-> good[i].trade_id,
                  symbol |-> good[i].symbol,
                  quantity |-> good[i].quantity,
                  entry_price |-> good[i].entry_price,
                  open_time |-> FromIsoFormat(good[i].open_time)]]

\* ---------------------------------------------------------------- trade log

NoTradeLog == [header |-> "none", rows |-> <<>>]
\* A trade_log.csv written by the revision without the trade_id column.
LegacyTradeLog ==
    [header |-> "legacy",
     rows |-> <<[timestamp |-> IsoFormat(Timestamp(0)), action |-> "buy",
                 trade_id |-> NoTradeId, symbol |-> "X", quantity |-> 1,
                 entry_price |-> Blank, price |-> 10, profit |-> Blank],
                [timestamp |-> IsoFormat(Timestamp(0)), action |-> "sell",
                 trade_id |-> NoTradeId, symbol |-> "X", quantity |-> 1,
                 entry_price |-> Blank, price |-> 12, profit |-> Blank]>>]

\* log_trade as it would be if it tested the truth of entry_price and
\* profit ("entry_price or ''") instead of "is not None": a value of 0 is
\* written as empty.
log_trade_Truthy(log, t, action, symbol, quantity, price, trade_id, entry_price, profit) ==
    [header |-> IF log.header = "none" THEN "current" ELSE log.header,
     rows |-> Append(log.rows,
                 [timestamp |-> IsoFormat(Timestamp(t)), action |-> action,
                  trade_id |-> trade_id, symbol |-> symbol, quantity |-> quantity,
                  entry_price |-> IF entry_price = Some(0) THEN Blank ELSE entry_price,
                  price |-> price,
                  profit |-> IF profit = Some(0) THEN Blank ELSE profit])]

\* log_trade at instant t: one row appended, header first on a new file.
log_trade(log, t, action, symbol, quantity, price, trade_id, entry_price, profit) ==
    [header |-> IF log.header = "none" THEN "current" ELSE log.header,
     rows |-> Append(log.rows,
                 [timestamp |-> IsoFormat(Timestamp(t)), action |-> action,
                  trade_id |-> trade_id, symbol |-> symbol, quantity |-> quantity,
                  entry_price |-> entry_price, price |-> price, profit |-> profit])]

\* migrate_trade_log as it would be if it rewrote the header of a legacy
\* log in place instead of renaming the file.
migrate_trade_log_InPlace(log, legacy, t) ==
    [trade_log |-> [header |-> "current", rows |-> log.rows],
     legacy_logs |-> legacy]

\* migrate_trade_log as it would be if it renamed every existing log,
\* whatever its header.
migrate_trade_log_Always(log, legacy, t) ==
    [trade_log |-> [header |-> "current", rows |-> <<>>],
     legacy_logs |-> IF log.header # "none"
                     THEN Append(legacy, [ts |-> Timestamp(t), log |-> log])
                     ELSE legacy]

\* migrate_trade_log at instant t: a log without trade_id is renamed, and a
\* fresh log with the current header is created where none is left.
migrate_trade_log(log, legacy, t) ==
    LET renamed == log.header = "legacy"
        kept == IF renamed THEN NoTradeLog ELSE log
    IN  [trade_log |-> IF kept.header = "none"
                       THEN [header |-> "current", rows |-> <<>>]
                       ELSE kept,
         legacy_logs |-> IF renamed
                         THEN Append(legacy, [ts |-> Timestamp(t), log |-> log])
                         ELSE legacy]

\* validate_trades, line 67: the sell row has no buy to match, as it would
\* be if only an empty trade_id counted.
SellUnmatched_EmptyOnly(trade_id, buy_dates) == trade_id = NoTradeId

\* validate_trades, line 67: "not trade_id or trade_id not in buy_dates".
SellUnmatched(trade_id, buy_dates) ==
    trade_id = NoTradeId \/ trade_id \notin DOMAIN buy_dates

\* validate_trades, line 69, as it would be if the first sell of a trade_id
\* counted as a duplicate.
DuplicateClose_First(count) == count >= 1

\* validate_trades, line 69: "sell_counts[trade_id] > 1".
DuplicateClose(count) == count > 1

Warning(kind, i, trade_id) == [kind |-> kind, row |-> i, trade_id |-> trade_id]

\* The loop of validate_trades from the i-th row on, with the buy_dates and
\* sell_counts collected so far; the result is the warnings logged, in
\* order.  Every row is one that log_trade or csv.DictWriter wrote with an
\* isoformat timestamp, so fromisoformat parses it.  An empty trade_id is
\* None: a buy row with it is not recorded, a sell row is counted under None.
RECURSIVE ValidateFrom(_, _, _, _)
ValidateFrom(rows, i, buy_dates, sell_counts) ==
    IF i > Len(rows) THEN <<>>
    ELSE LET row == rows[i]
             trade_id == row.trade_id
             d == DateOf(FromIsoFormat(row.timestamp))
         IN  IF row.action = "buy"
             THEN ValidateFrom(rows, i + 1,
                      IF trade_id # NoTradeId
                      THEN [k \in DOMAIN buy_dates \cup {trade_id} |->
                               IF k = trade_id THEN d ELSE buy_dates[k]]
                      ELSE buy_dates,
                      sell_counts)
             ELSE IF row.action = "sell"
             THEN LET count == IF trade_id \in DOMAIN sell_counts
                               THEN sell_counts[trade_id] + 1 ELSE 1
                      counts == [k \in DOMAIN sell_counts \cup {trade_id} |->
                                    IF k = trade_id THEN count ELSE sell_counts[k]]
                  IN  (IF SellUnmatched(trade_id, buy_dates)
                       THEN <<Warning("sell without matching buy", i, trade_id)>>
                       ELSE <<>>)
                      \o (IF DuplicateClose(count)
                          THEN <<Warning("duplicate close", i, trade_id)>>
                          ELSE <<>>)
                      \o (IF trade_id \in DOMAIN buy_dates /\ buy_dates[trade_id] = d
                          THEN <<Warning("same-day buy and sell", i, trade_id)>>
                          ELSE <<>>)
                      \o ValidateFrom(rows, i + 1, buy_dates, counts)
             ELSE ValidateFrom(rows, i + 1, buy_dates, sell_counts)

\* validate_trades: the warnings it logs; it returns at once where no trade
\* log exists, and it writes nothing.
validate_trades(log) ==
    IF log.header = "none" THEN <<>>
    ELSE ValidateFrom(log.rows, 1, <<>>, <<>>)

\* ------------------------------------------------------------------- ledger

\* Indices of the ledger records of a symbol.
RecordsOf(positions, symbol) ==
    {i \in 1..Len(positions) : positions[i].symbol = symbol}

\* execute_buy at instant t with uuid4 returning id.
\* L is [open_positions, positions_file, trade_log, disk], disk being the
\* outcome ("ok" or "fail") of a write to the positions file; the result
\* adds ret.
execute_buy(symbol, quantity, price, L, t, id) ==
    LET positions == Append(L.open_positions,
                        [trade_id |-> id, symbol |-> symbol, quantity |-> quantity,
                         entry_price |-> price, open_time |-> Timestamp(t)])
    IN  [ret |-> id,
         profit |-> Blank,
         open_positions |-> positions,
         positions_file |-> write_positions(positions, L.positions_file, L.disk),
         trade_log |-> log_trade(L.trade_log, t, "buy", symbol, quantity, price,
                                 id, Some(price), Blank)]

\* execute_sell as it would be without save_positions after the deletion.
execute_sell_NoSave(symbol, quantity, price, L, t) ==
    LET found == RecordsOf(L.open_positions, symbol)
    IN  IF found = {}
        THEN [ret |-> NoTradeId, profit |-> Blank,
              open_positions |-> L.open_positions,
              positions_file |-> L.positions_file,
              trade_log |-> L.trade_log]
        ELSE LET i == CHOOSE k \in found : \A j \in found : k <= j
                 pos == L.open_positions[i]
                 profit == (price - pos.entry_price) * quantity
             IN  [ret |-> pos.trade_id, profit |-> Some(profit),
                  open_positions |-> SelectSeq(L.open_positions,
                                        LAMBDA r : r.trade_id # pos.trade_id),
                  positions_file |-> L.positions_file,
                  trade_log |-> log_trade(L.trade_log, t, "sell", symbol, quantity,
                                          price, pos.trade_id, Blank, Some(profit))]

\* execute_sell as it would be if it logged the sell before looking for
\* the record.
execute_sell_LogsFirst(symbol, quantity, price, L, t) ==
    LET found == RecordsOf(L.open_positions, symbol)
    IN  IF found = {}
        THEN [ret |-> NoTradeId, profit |-> Blank,
              open_positions |-> L.open_positions,
              positions_file |-> L.positions_file,
              trade_log |-> log_trade(L.trade_log, t, "sell", symbol, quantity,
                                      price, NoTradeId, Blank, Blank)]
        ELSE LET i == CHOOSE k \in found : \A j \in found : k <= j
                 pos == L.open_positions[i]
                 profit == (price - pos.entry_price) * quantity
                 positions == SelectSeq(L.open_positions,
                                        LAMBDA r : r.trade_id # pos.trade_id)
             IN  [ret |-> pos.trade_id, profit |-> Some(profit),
                  open_positions |-> positions,
                  positions_file |-> write_positions(positions, L.positions_file,
                                                     L.disk),
                  trade_log |-> log_trade(L.trade_log, t, "sell", symbol, quantity,
                                          price, pos.trade_id, Blank, Some(profit))]

\* execute_sell at instant t: closes the first record of the symbol in dict
\* order, or returns (None, None) and changes nothing.
execute_sell(symbol, quantity, price, L, t) ==
    LET found == RecordsOf(L.open_positions, symbol)
    IN  IF found = {}
        THEN [ret |-> NoTradeId, profit |-> Blank,
              open_positions |-> L.open_positions,
              positions_file |-> L.positions_file,
              trade_log |-> L.trade_log]
        ELSE LET i == CHOOSE k \in found : \A j \in found : k <= j
                 pos == L.open_positions[i]
                 profit == (price - pos.entry_price) * quantity
                 positions == SelectSeq(L.open_positions,
                                        LAMBDA r : r.trade_id # pos.trade_id)
             IN  [ret |-> pos.trade_id, profit |-> Some(profit),
                  open_positions |-> positions,
                  positions_file |-> write_positions(positions, L.positions_file,
                                                     L.disk),
                  trade_log |-> log_trade(L.trade_log, t, "sell", symbol, quantity,
                                          price, pos.trade_id, Blank, Some(profit))]

\* ---------------------------------------------------------------- baselines

save_baselines(bls) ==
    [exists |-> TRUE,
     data |-> [s \in Symbols |->
                  IF bls[s].has
                  THEN Some([price |-> bls[s].price, ts |-> IsoFormat(bls[s].ts)])
                  ELSE Blank]]

\* "baselines = load_baselines()" raises: json.load cannot parse the file, or
\* an entry with a "price" has a "ts" that datetime.fromisoformat rejects
\* (lines 270-271 sit in no try block).
LoadBaselinesRaises(file) ==
    /\ file.exists
    /\ IF IsTorn(file) THEN TRUE
       ELSE \E s \in DOMAIN file.data :
                /\ file.data[s] # Blank
                /\ "price" \in DOMAIN file.data[s][1]
                /\ ~IsIso(file.data[s][1].ts)

\* load_baselines where it does not raise: an entry that is no dict, or a
\* dict without "price", is passed over.  (Every entry with a "price" in
\* the model has a "ts".)
load_baselines(file) ==
    IF ~file.exists THEN EmptyMap(NoBaseline)
    ELSE [s \in Symbols |->
             IF file.data[s] = Blank THEN NoBaseline
             ELSE IF "price" \notin DOMAIN file.data[s][1] THEN NoBaseline
             ELSE [has |-> TRUE, price |-> file.data[s][1].price,
                   ts |-> FromIsoFormat(file.data[s][1].ts)]]

\* ------------------------------------------------------------- SMA windows

\* compute_sma as it would be if it were ready one sample early.
compute_sma_OneShort(prices) ==
    IF Len(prices) < SMA_PERIOD - 1
    THEN [ready |-> FALSE, sum |-> 0, len |-> 1]
    ELSE [ready |-> TRUE, sum |-> SumSeq(prices), len |-> Len(prices)]

\* compute_sma as it would be without the warm-up test.
compute_sma_NoWarmup(prices) ==
    IF prices = <<>>
    THEN [ready |-> FALSE, sum |-> 0, len |-> 1]
    ELSE [ready |-> TRUE, sum |-> SumSeq(prices), len |-> Len(prices)]

\* compute_sma: not ready below SMA_PERIOD samples, else sum / len.
compute_sma(prices) ==
    IF Len(prices) < SMA_PERIOD
    THEN [ready |-> FALSE, sum |-> 0, len |-> 1]
    ELSE [ready |-> TRUE, sum |-> SumSeq(prices), len |-> Len(prices)]

\* record_price_history at instant t.  Only the rows load_price_windows can
\* still use are kept: the last SMA_PERIOD rows of each symbol.
record_price_history(history, symbol, price, t) ==
    [history EXCEPT ![symbol] =
        LastN(Append(@, [timestamp |-> IsoFormat(Timestamp(t)), price |-> price]),
              SMA_PERIOD)]

\* save_sma_state as it would be if it kept only the windows that are warm.
save_sma_state_WarmOnly(windows, t) ==
    [exists |-> TRUE, date |-> IsoFormat(DateET(t)),
     data |-> [s \in DOMAIN windows |->
                  IF Len(windows[s]) < SMA_PERIOD THEN <<>> ELSE windows[s]]]

save_sma_state(windows, t) ==
    [exists |-> TRUE, date |-> IsoFormat(DateET(t)), data |-> windows]

\* The row ends the reading of the log with an exception that the inner
\* "except ValueError" does not catch: it has fewer than three fields (the
\* unpacking of line 311), or it is dated day and its price is no number
\* (float of line 318).
RowRaises(row, day) ==
    \/ "price" \notin DOMAIN row /\ "price_str" \notin DOMAIN row
    \/ /\ "price_str" \in DOMAIN row
       /\ IsIso(row.timestamp)
       /\ DateInET(FromIsoFormat(row.timestamp)) = day

HistoryRaises(rows, day) == \E i \in 1..Len(rows) : RowRaises(rows[i], day)

\* The prices of the rows as they would be collected without the test of
\* the row's date.
RECURSIVE PricesOfDay_AnyDay(_, _)
PricesOfDay_AnyDay(rows, day) ==
    IF rows = <<>> THEN <<>>
    ELSE <<Head(rows).price>> \o PricesOfDay_AnyDay(Tail(rows), day)

\* The prices of the rows dated day (US/Eastern), in the order of the log,
\* up to the first row that raises; a row whose timestamp does not parse is
\* passed over.
RECURSIVE PricesOfDay(_, _)
PricesOfDay(rows, day) ==
    IF rows = <<>> THEN <<>>
    ELSE IF RowRaises(Head(rows), day) THEN <<>>
    ELSE IF /\ IsIso(Head(rows).timestamp)
            /\ DateInET(FromIsoFormat(Head(rows).timestamp)) = day
         THEN <<Head(rows).price>> \o PricesOfDay(Tail(rows), day)
         ELSE PricesOfDay(Tail(rows), day)

\* load_price_windows as it would be with windows that are plain lists
\* (no deque(maxlen=SMA_PERIOD)).
load_price_windows_NoMaxlen(history, snapshot, t) ==
    LET today == DateET(t)
        windows == [s \in DOMAIN history |-> PricesOfDay(history[s], today)]
        raised == \E s \in DOMAIN history : HistoryRaises(history[s], today)
    IN  IF ~raised /\ \E s \in DOMAIN history : windows[s] # <<>>
        THEN windows
        ELSE IF snapshot.exists /\ snapshot.date = IsoFormat(today)
             THEN [s \in DOMAIN history |-> snapshot.data[s]]
             ELSE windows

\* load_price_windows at instant t: today's rows of the price history if
\* there are any (for any symbol) and no row raised, else the snapshot if
\* dated today, else what was read of the history.  The history is kept per
\* symbol, so a row that raises ends the reading of its symbol's rows only;
\* the runs with such rows have them in a log of one symbol.
load_price_windows(history, snapshot, t) ==
    LET today == DateET(t)
        windows == [s \in DOMAIN history |->
                       LastN(PricesOfDay(history[s], today), SMA_PERIOD)]
        raised == \E s \in DOMAIN history : HistoryRaises(history[s], today)
    IN  IF ~raised /\ \E s \in DOMAIN history : windows[s] # <<>>
        THEN windows
        ELSE IF snapshot.exists /\ snapshot.date = IsoFormat(today)
             THEN [s \in DOMAIN history |-> LastN(snapshot.data[s], SMA_PERIOD)]
             ELSE windows

\* ---------------------------------------------------------- purchase dates

save_purchase_dates(pd, t) ==
    [exists |-> TRUE, date |-> IsoFormat(DateET(t)),
     data |-> [s \in Symbols |-> IF pd[s] = NoDate THEN Blank ELSE Some(IsoFormat(pd[s]))]]

\* Symbols with a buy row in the trade log whose timestamp (Pacific) is dated day.
BoughtOn(log, day) ==
    {log.rows[i].symbol : i \in {k \in 1..Len(log.rows) :
        /\ log.rows[k].action = "buy"
        /\ DateOf(FromIsoFormat(log.rows[k].timestamp)) = day}}

\* load_purchase_dates as it would be without the test of the file's date.
load_purchase_dates_AnyDate(file, log, t) ==
    LET today == DateET(t)
    IN  [s \in Symbols |->
            IF s \in BoughtOn(log, today) THEN today
            ELSE IF file.exists /\ file.data[s] # Blank
                 THEN FromIsoFormat(file.data[s][1])
                 ELSE NoDate]

\* load_purchase_dates at instant t: the file's entries if the file is dated
\* today, plus today for every symbol with a buy row of today in the trade log.
load_purchase_dates(file, log, t) ==
    LET today == DateET(t)
        fresh == file.exists /\ file.date = IsoFormat(today)
    IN  [s \in Symbols |->
            IF s \in BoughtOn(log, today) THEN today
            ELSE IF fresh /\ file.data[s] # Blank
                 THEN FromIsoFormat(file.data[s][1])
                 ELSE NoDate]

\* ------------------------------------------------------------ decision loop

\* The (bt, st, sm) of the bot that lists the i-th symbol of the cycle.
Triggers(c, i) ==
    IF i <= Len(c.symbols_a)
    THEN [bt |-> BUY_TRIGGER_A, st |-> c.sell_trigger_a, sm |-> STOP_MULTIPLIER_A]
    ELSE [bt |-> BUY_TRIGGER_B, st |-> c.sell_trigger_b, sm |-> STOP_MULTIPLIER_B]

\* reset_req as it would be if drift alone reset the baseline.
ResetRequired_DriftOnly(bl, price, atr, t) ==
    \/ ~bl.has
    \/ (t - bl.ts) > RESET_MINUTES
    \/ Abs(price - bl.price) * 100 > BASELINE_DRIFT * bl.price

\* reset_req of a tick: no baseline, baseline expired, or drift in a
\* volatile market.
ResetRequired(bl, price, atr, t) ==
    \/ ~bl.has
    \/ (t - bl.ts) > RESET_MINUTES
    \/ /\ Abs(price - bl.price) * 100 > BASELINE_DRIFT * bl.price
       /\ atr > 0
       /\ atr * 100 > VOLATILITY_FILTER * price

\* base_price as it would be if it were always the stored baseline.
BasePrice_Stored(qty, avg_entry, bl_price) == bl_price

\* base_price of a tick: the entry price the broker reports when a position
\* is held, else the price of the stored baseline.
BasePrice(qty, avg_entry, bl_price) == IF qty > 0 THEN avg_entry ELSE bl_price

\* get_position_info: the broker's position, (0.0, 0.0) when the call
\* returned None.
get_position_info(held, answer) ==
    IF answer = "ok" /\ held.qty > 0 THEN held ELSE Flat

\* stop_price = max(base_price - atr * sm, 0), in thousandths.
stop_price(base_price, atr, sm) == Max(base_price * 1000 - atr * sm, 0)

\* Decision as it would be without the same-day-sell guard.
Decision_NoGuard(qty, price, base_price, atr, sma, pdate, t, trig) ==
    LET trend_ok == price * sma.len > sma.sum
        buy_ok == price * 1000 <= base_price * trig.bt
        sell_ok == price * 1000 >= base_price * trig.st
        stop_ok == price * 1000 <= Max(base_price * 1000 - atr * trig.sm, 0)
    IN  IF qty = 0 /\ buy_ok /\ trend_ok /\ ~is_lunch_time(t) THEN "buy"
        ELSE IF qty > 0
             THEN IF sell_ok THEN "target"
                  ELSE IF stop_ok THEN "stop"
                  ELSE "hold"
             ELSE "hold"

\* Decision as it would be without the lunch blackout.
Decision_NoLunch(qty, price, base_price, atr, sma, pdate, t, trig) ==
    LET trend_ok == price * sma.len > sma.sum
        buy_ok == price * 1000 <= base_price * trig.bt
        sell_ok == price * 1000 >= base_price * trig.st
        stop_ok == price * 1000 <= Max(base_price * 1000 - atr * trig.sm, 0)
    IN  IF qty = 0 /\ buy_ok /\ trend_ok THEN "buy"
        ELSE IF qty > 0
             THEN IF pdate = DatePT(t) THEN "guard"
                  ELSE IF sell_ok THEN "target"
                  ELSE IF stop_ok THEN "stop"
                  ELSE "hold"
             ELSE "hold"

\* Decision as it would be if the stop were taken only below the threshold.
Decision_StrictStop(qty, price, base_price, atr, sma, pdate, t, trig) ==
    LET trend_ok == price * sma.len > sma.sum
        buy_ok == price * 1000 <= base_price * trig.bt
        sell_ok == price * 1000 >= base_price * trig.st
        stop_ok == price * 1000 < Max(base_price * 1000 - atr * trig.sm, 0)
    IN  IF qty = 0 /\ buy_ok /\ trend_ok /\ ~is_lunch_time(t) THEN "buy"
        ELSE IF qty > 0
             THEN IF pdate = DatePT(t) THEN "guard"
                  ELSE IF sell_ok THEN "target"
                  ELSE IF stop_ok THEN "stop"
                  ELSE "hold"
             ELSE "hold"

\* The branch the tick takes once the SMA is ready.
Decision(qty, price, base_price, atr, sma, pdate, t, trig) ==
    LET trend_ok == price * sma.len > sma.sum
        buy_ok == price * 1000 <= base_price * trig.bt
        sell_ok == price * 1000 >= base_price * trig.st
        stop_ok == price * 1000 <= stop_price(base_price, atr, trig.sm)
    IN  IF qty = 0 /\ buy_ok /\ trend_ok /\ ~is_lunch_time(t) THEN "buy"
        ELSE IF qty > 0
             THEN IF pdate = DatePT(t) THEN "guard"
                  ELSE IF sell_ok THEN "target"
                  ELSE IF stop_ok THEN "stop"
                  ELSE "hold"
             ELSE "hold"

\* qty_to_buy = round((cash * RISK_PCT) / price, 6), in micro-shares.
QtyToBuy(c, price) == RoundDiv(c * RISK_PCT * 1000, price)

\* The broker's position after a filled market order.
BrokerFill(held, side, qty, price) ==
    IF side = "sell" THEN Flat
    ELSE [qty |-> held.qty + qty,
          avg_entry |-> RoundDiv(held.qty * held.avg_entry + qty * price, held.qty + qty)]

Ledger == [open_positions |-> open_positions, positions_file |-> positions_file,
           trade_log |-> trade_log, disk |-> "ok"]

\* The part of a tick that every symbol leaves alone.
TickFrame == UNCHANGED <<starts, cfg, now, cash, legacy_logs, sma_state_file,
                         sent_closing_email, last_trading_date, call>>

NextSymbol ==
    IF idx < Len(AllSymbols(cfg))
    THEN pc' = "sym" /\ idx' = idx + 1
    ELSE pc' = "eod" /\ idx' = 0

TickObs(sym, price, pos, base_price, atr, sma_ready, branch, answer, ret) ==
    [kind |-> "tick", idx |-> idx, symbol |-> sym, price |-> price, qty |-> pos.qty,
     avg_entry |-> pos.avg_entry, base_price |-> base_price, atr |-> atr,
     sma_ready |-> sma_ready, branch |-> branch, answer |-> answer, ret |-> ret]

\* One pass of the body of "for sym in symbols": price is the answer of
\* get_current_price, posAnswer of get_position, atr of calculate_atr and
\* ordAnswer of retry_api_call(api.submit_order) if an order is submitted.
SymbolStep(price, posAnswer, atr, ordAnswer) ==
    /\ pc = "sym"
    /\ NextSymbol
    /\ TickFrame
    /\ LET sym == AllSymbols(cfg)[idx]
           trig == Triggers(cfg, idx)
       IN  IF price = NoPrice
           THEN /\ posAnswer = "ok" /\ atr = 0 /\ ordAnswer = "none"
                /\ obs' = TickObs(sym, price, Flat, 0, 0, FALSE, "skip", "-", NoTradeId)
                /\ UNCHANGED <<nextId, broker, open_positions, positions_file, trade_log,
                               baselines, baseline_file, price_windows, price_history,
                               purchase_dates, purchase_dates_file, summary>>
           ELSE
           LET pos == get_position_info(broker[sym], posAnswer)
               qty == pos.qty
               reset_req == ResetRequired(baselines[sym], price, atr, now)
               bls == IF reset_req
                      THEN [baselines EXCEPT ![sym] =
                               [has |-> TRUE, price |-> price, ts |-> now]]
                      ELSE baselines
               base_price == BasePrice(qty, pos.avg_entry, bls[sym].price)
               window == LastN(Append(price_windows[sym], price), SMA_PERIOD)
               sma == compute_sma(window)
               branch == IF ~sma.ready THEN "warmup"
                         ELSE Decision(qty, price, base_price, atr, sma,
                                       purchase_dates[sym], now, trig)
               ordered == branch \in {"buy", "target", "stop"}
               side == IF branch = "buy" THEN "buy" ELSE "sell"
               order_qty == IF branch = "buy" THEN QtyToBuy(cash, price) ELSE qty
               R == IF branch = "buy"
                    THEN execute_buy(sym, order_qty, price, Ledger, now, nextId)
                    ELSE execute_sell(sym, order_qty, price, Ledger, now)
               pds == [purchase_dates EXCEPT ![sym] = DatePT(now)]
           IN  /\ baselines' = bls
               /\ baseline_file' = IF reset_req THEN save_baselines(bls) ELSE baseline_file
               /\ price_history' = record_price_history(price_history, sym, price, now)
               /\ price_windows' = [price_windows EXCEPT ![sym] = window]
               /\ IF ordered
                  THEN /\ ordAnswer \in {"ack", "none"}
                       /\ branch = "buy" => nextId <= MaxTrades
                       /\ broker' = IF ordAnswer = "ack"
                                    THEN [broker EXCEPT ![sym] =
                                             BrokerFill(@, side, order_qty, price)]
                                    ELSE broker
                       /\ open_positions' = R.open_positions
                       /\ positions_file' = R.positions_file
                       /\ trade_log' = R.trade_log
                       /\ nextId' = IF branch = "buy" THEN nextId + 1 ELSE nextId
                       /\ purchase_dates' = IF branch = "buy" THEN pds ELSE purchase_dates
                       /\ purchase_dates_file' =
                              IF branch = "buy" THEN save_purchase_dates(pds, now)
                              ELSE purchase_dates_file
                       /\ summary' = IF branch = "buy"
                                     THEN Append(summary, [line |-> "BUY", symbol |-> sym])
                                     ELSE IF R.ret # NoTradeId
                                     THEN Append(summary,
                                            [line |-> IF branch = "target"
                                                      THEN "SELL (target)"
                                                      ELSE "SELL (stop)",
                                             symbol |-> sym])
                                     ELSE summary
                       /\ obs' = TickObs(sym, price, pos, base_price, atr, TRUE,
                                         branch, ordAnswer, R.ret)
                  ELSE /\ ordAnswer = "none"
                       /\ obs' = TickObs(sym, price, pos, base_price, atr, sma.ready,
                                         branch, "-", NoTradeId)
                       /\ UNCHANGED <<nextId, broker, open_positions, positions_file,
                                      trade_log, purchase_dates, purchase_dates_file,
                                      summary>>

\* SymbolRaises as it would be without the "except Exception" of the while
\* loop: the exception ends the process.
SymbolRaises_Uncaught ==
    /\ pc = "sym"
    /\ pc' = "down"
    /\ idx' = 0
    /\ obs' = [kind |-> "cycle", result |-> "error", idx |-> idx,
               symbol |-> AllSymbols(cfg)[idx]]
    /\ UNCHANGED <<starts, cfg, now, nextId, broker, cash, open_positions,
                   positions_file, trade_log, legacy_logs, baselines, baseline_file,
                   price_windows, price_history, sma_state_file, purchase_dates,
                   purchase_dates_file, summary, sent_closing_email,
                   last_trading_date, call>>

\* A pass of the body of "for sym in symbols" that raises: a broker call
\* of the pass (here the first, api.get_latest_trade in get_current_price)
\* has failed on every retry and retry_api_call raises RuntimeError, which
\* CIRCUIT_BREAKER_THRESHOLD above the number of retries lets it reach.  No
\* statement between "for sym in symbols" and the "except Exception" of the
\* while loop catches it: the handler logs it, sleeps and starts the next
\* cycle.
SymbolRaises ==
    /\ pc = "sym"
    /\ pc' = "loop"
    /\ idx' = 0
    /\ obs' = [kind |-> "cycle", result |-> "error", idx |-> idx,
               symbol |-> AllSymbols(cfg)[idx]]
    /\ UNCHANGED <<starts, cfg, now, nextId, broker, cash, open_positions,
                   positions_file, trade_log, legacy_logs, baselines, baseline_file,
                   price_windows, price_history, sma_state_file, purchase_dates,
                   purchase_dates_file, summary, sent_closing_email,
                   last_trading_date, call>>

\* ------------------------------------------------------------------ startup

\* Whether the name retry_api_call is bound when the bootstrap block runs.
\* The block is module-level code at lines 196-220; "def retry_api_call" is
\* executed at line 226, after it.
RetryApiCallBound == FALSE

\* The bootstrap loop over the positions in listed (api.list_positions()),
\* a sequence of symbols, from the i-th on.  B is [open_positions,
\* positions_file, trade_log, nextId].
RECURSIVE BootstrapFrom(_, _, _, _, _)
BootstrapFrom(i, listed, B, held, t) ==
    IF i > Len(listed) THEN B
    ELSE LET sym == listed[i]
             p == held[sym]
         IN  IF p.qty > 0 /\ RecordsOf(B.open_positions, sym) = {}
             THEN LET positions == Append(B.open_positions,
                                      [trade_id |-> B.nextId, symbol |-> sym,
                                       quantity |-> p.qty, entry_price |-> p.avg_entry,
                                       open_time |-> Timestamp(t)])
                  IN  BootstrapFrom(i + 1, listed,
                          [open_positions |-> positions,
                           positions_file |-> save_positions(positions),
                           trade_log |-> log_trade(B.trade_log, t, "buy", sym, p.qty,
                                                   p.avg_entry, B.nextId,
                                                   Some(p.avg_entry), Blank),
                           nextId |-> B.nextId + 1],
                          held, t)
             ELSE BootstrapFrom(i + 1, listed, B, held, t)

\* The bootstrap block as it would be if it ran its loop and adopted every
\* listed position with a positive quantity, tracked or not.
bootstrap_Untracked(listed, B, held, t) ==
    IF listed = <<>> \/ held[listed[1]].qty <= 0 THEN B
    ELSE LET sym == listed[1]
             positions == Append(B.open_positions,
                              [trade_id |-> B.nextId, symbol |-> sym,
                               quantity |-> held[sym].qty,
                               entry_price |-> held[sym].avg_entry,
                               open_time |-> Timestamp(t)])
         IN  [open_positions |-> positions,
              positions_file |-> save_positions(positions),
              trade_log |-> log_trade(B.trade_log, t, "buy", sym, held[sym].qty,
                                      held[sym].avg_entry, B.nextId,
                                      Some(held[sym].avg_entry), Blank),
              nextId |-> B.nextId + 1]

\* The bootstrap block: evaluating the unbound name raises NameError, which
\* "except Exception" swallows before the loop body has run once.
bootstrap(listed, B, held, t) ==
    IF RetryApiCallBound THEN BootstrapFrom(1, listed, B, held, t) ELSE B

\* In-memory state of a process that is not running.
Forgotten ==
    /\ idx' = 0
    /\ cash' = 0
    /\ open_positions' = <<>>
    /\ baselines' = EmptyMap(NoBaseline)
    /\ price_windows' = EmptyMap(<<>>)
    /\ purchase_dates' = EmptyMap(NoDate)
    /\ summary' = <<>>
    /\ sent_closing_email' = FALSE
    /\ last_trading_date' = NoDate

\* Module-level code run by "python main.py", up to the while loop.
Startup ==
    /\ pc = "down"
    /\ ~LoadBaselinesRaises(baseline_file)
    /\ starts <= MaxRestarts
    /\ starts' = starts + 1
    /\ LET M == migrate_trade_log(trade_log, legacy_logs, now)
           B == bootstrap(<<"X">>,
                          [open_positions |-> load_positions(positions_file),
                           positions_file |-> positions_file,
                           trade_log |-> M.trade_log,
                           nextId |-> nextId],
                          broker, now)
       IN  /\ B.nextId <= MaxTrades + 1
           /\ legacy_logs' = M.legacy_logs
           /\ open_positions' = B.open_positions
           /\ positions_file' = B.positions_file
           /\ trade_log' = B.trade_log
           /\ nextId' = B.nextId
           /\ purchase_dates' = load_purchase_dates(purchase_dates_file, B.trade_log, now)
    /\ baselines' = load_baselines(baseline_file)
    /\ price_windows' = load_price_windows(price_history, sma_state_file, now)
    /\ summary' = <<>>
    /\ sent_closing_email' = FALSE
    /\ last_trading_date' = NoDate
    /\ pc' = "loop"
    /\ idx' = 0
    /\ obs' = [kind |-> "startup"]
    /\ UNCHANGED <<cfg, now, broker, cash, baseline_file, price_history,
                   sma_state_file, purchase_dates_file, call>>

\* ------------------------------------------------------------ polling cycle

\* clock.next_open - now in seconds, for a broker whose next session opens
\* at the next MARKET_OPEN of the calendar.
SecondsUntilOpen(t) ==
    LET tod == TimeOfDayET(t)
    IN  60 * (IF tod < MARKET_OPEN THEN MARKET_OPEN - tod
              ELSE MinutesPerDay - tod + MARKET_OPEN)

\* The wait of a cycle that finds the market closed: none when the opening
\* time has been reached, otherwise min(seconds_until_open, 60).
ClosedPollSeconds == 60
sleep_sec(seconds_until_open) ==
    IF seconds_until_open <= 0 THEN 0
    ELSE IF seconds_until_open < ClosedPollSeconds THEN seconds_until_open
    ELSE ClosedPollSeconds

\* ClockStep as it would be without the "if not is_open" branch: the cycle
\* goes on to the symbols whatever the clock says.
ClockStep_IgnoreClosed(clockAnswer, cashAnswer) ==
    /\ pc = "loop"
    /\ IF clockAnswer = "none"
       THEN /\ cashAnswer = Blank
            /\ obs' = [kind |-> "cycle", result |-> "error"]
            /\ UNCHANGED <<pc, idx, cash, summary, purchase_dates,
                           sent_closing_email, last_trading_date>>
       ELSE LET is_open == ClockIsOpen(now)
                today_et == DateET(now)
                new_day == is_open /\ last_trading_date # today_et
            IN  /\ summary' = IF new_day THEN <<>> ELSE summary
                /\ purchase_dates' = IF new_day THEN EmptyMap(NoDate) ELSE purchase_dates
                /\ sent_closing_email' = IF new_day THEN FALSE ELSE sent_closing_email
                /\ last_trading_date' = IF new_day THEN today_et ELSE last_trading_date
                /\ IF ~is_open
                   THEN /\ cashAnswer # Blank
                        /\ obs' = [kind |-> "cycle", result |-> "open"]
                        /\ cash' = cashAnswer[1]
                        /\ pc' = "sym"
                        /\ idx' = 1
                   ELSE IF cashAnswer = Blank
                   THEN /\ obs' = [kind |-> "cycle", result |-> "error"]
                        /\ UNCHANGED <<pc, idx, cash>>
                   ELSE /\ obs' = [kind |-> "cycle", result |-> "open"]
                        /\ cash' = cashAnswer[1]
                        /\ pc' = "sym"
                        /\ idx' = 1
    /\ UNCHANGED <<starts, cfg, now, nextId, broker, open_positions, positions_file,
                   trade_log, legacy_logs, baselines, baseline_file, price_windows,
                   price_history, sma_state_file, purchase_dates_file, call>>

\* Top of "while api is not None": get_clock, the start-of-day reset, the
\* market-closed wait, get_account.  A None answer is dereferenced and the
\* exception ends the cycle in the loop's "except Exception".
ClockStep(clockAnswer, cashAnswer) ==
    /\ pc = "loop"
    /\ IF clockAnswer = "none"
       THEN /\ cashAnswer = Blank
            /\ obs' = [kind |-> "cycle", result |-> "error"]
            /\ UNCHANGED <<pc, idx, cash, summary, purchase_dates,
                           sent_closing_email, last_trading_date>>
       ELSE LET is_open == ClockIsOpen(now)
                today_et == DateET(now)
                new_day == is_open /\ last_trading_date # today_et
            IN  /\ summary' = IF new_day THEN <<>> ELSE summary
                /\ purchase_dates' = IF new_day THEN EmptyMap(NoDate) ELSE purchase_dates
                /\ sent_closing_email' = IF new_day THEN FALSE ELSE sent_closing_email
                /\ last_trading_date' = IF new_day THEN today_et ELSE last_trading_date
                /\ IF ~is_open
                   THEN /\ cashAnswer = Blank
                        /\ obs' = [kind |-> "cycle", result |-> "closed",
                                   sleep_sec |-> sleep_sec(SecondsUntilOpen(now))]
                        /\ UNCHANGED <<pc, idx, cash>>
                   ELSE IF cashAnswer = Blank
                   THEN /\ obs' = [kind |-> "cycle", result |-> "error"]
                        /\ UNCHANGED <<pc, idx, cash>>
                   ELSE /\ obs' = [kind |-> "cycle", result |-> "open"]
                        /\ cash' = cashAnswer[1]
                        /\ pc' = "sym"
                        /\ idx' = 1
    /\ UNCHANGED <<starts, cfg, now, nextId, broker, open_positions, positions_file,
                   trade_log, legacy_logs, baselines, baseline_file, price_windows,
                   price_history, sma_state_file, purchase_dates_file, call>>

EodLines == <<[line |-> "", symbol |-> ""],
              [line |-> "EOD Equity", symbol |-> ""],
              [line |-> "Unrealized P/L", symbol |-> ""]>>

\* End of the cycle: the end-of-day report, then time.sleep(60).
EodStep(accountAnswer) ==
    /\ pc = "eod"
    /\ pc' = "loop"
    /\ IF is_market_close(now) /\ ~sent_closing_email
       THEN IF accountAnswer = "none"
            THEN /\ obs' = [kind |-> "cycle", result |-> "error"]
                 /\ UNCHANGED <<summary, sent_closing_email>>
            ELSE /\ summary' = summary \o EodLines
                 /\ sent_closing_email' = TRUE
                 /\ obs' = [kind |-> "email", subject |-> "Daily Market Summary"]
       ELSE /\ accountAnswer = "ok"
            /\ obs' = [kind |-> "cycle", result |-> "sleep"]
            /\ UNCHANGED <<summary, sent_closing_email>>
    /\ UNCHANGED <<starts, idx, cfg, now, nextId, broker, cash, open_positions, positions_file,
                   trade_log, legacy_logs, baselines, baseline_file, price_windows,
                   price_history, sma_state_file, purchase_dates, purchase_dates_file,
                   last_trading_date, call>>

\* graceful_shutdown, line 531, as it would be if an empty summary were
\* sent too.
EarlyExitDue_Unsent(summ, sent) == ~sent

\* graceful_shutdown, line 531: "if summary and not sent_closing_email".
EarlyExitDue(summ, sent) == summ # <<>> /\ ~sent

\* The steps of graceful_shutdown that can fail: the write of the SMA
\* snapshot, the write of the purchase dates, and send_email.
ShutdownFailures == {"none", "save_sma_state", "save_purchase_dates", "send_email"}

\* graceful_shutdown on SIGINT / SIGTERM, once signal.signal has installed
\* it (lines 538-539) and the loop runs; failing is the step of it that
\* raises, which its own try/except or the one around it logs and swallows.
Shutdown(failing) ==
    /\ pc \in {"loop", "sym", "eod"}
    /\ sma_state_file' = IF failing = "save_sma_state" THEN sma_state_file
                         ELSE save_sma_state(price_windows, now)
    /\ purchase_dates_file' = IF failing = "save_purchase_dates" THEN purchase_dates_file
                              ELSE save_purchase_dates(purchase_dates, now)
    /\ obs' = [kind |-> "signal", handler |-> TRUE, failing |-> failing,
               email |-> IF ~EarlyExitDue(summary, sent_closing_email) THEN "none"
                         ELSE IF failing = "send_email" THEN "failed"
                         ELSE "Early Exit Market Summary"]
    /\ pc' = "down"
    /\ Forgotten
    /\ UNCHANGED <<starts, cfg, now, nextId, broker, positions_file, trade_log,
                   legacy_logs, baseline_file, price_history, call>>

\* SIGINT / SIGTERM while the module-level code before line 538 runs:
\* graceful_shutdown is not installed yet, and the default disposition ends
\* the process (SIGTERM at once, SIGINT by KeyboardInterrupt, which no
\* "except Exception" catches).  migrated says whether the startup block
\* (lines 196-222) had run.
SignalAtStartup(migrated) ==
    /\ pc = "down"
    /\ ~LoadBaselinesRaises(baseline_file)
    /\ starts <= MaxRestarts
    /\ starts' = starts + 1
    /\ LET M == IF migrated THEN migrate_trade_log(trade_log, legacy_logs, now)
                ELSE [trade_log |-> trade_log, legacy_logs |-> legacy_logs]
       IN  /\ legacy_logs' = M.legacy_logs
           /\ trade_log' = M.trade_log
    /\ obs' = [kind |-> "signal", handler |-> FALSE, failing |-> "none",
               email |-> "none"]
    /\ UNCHANGED <<pc, idx, cfg, now, nextId, broker, cash, open_positions,
                   positions_file, baselines, baseline_file, price_windows,
                   price_history, sma_state_file, purchase_dates,
                   purchase_dates_file, summary, sent_closing_email,
                   last_trading_date, call>>

\* The process is killed without running its handler.
Crash ==
    /\ pc \in {"loop", "sym", "eod"}
    /\ obs' = [kind |-> "killed"]
    /\ pc' = "down"
    /\ Forgotten
    /\ UNCHANGED <<starts, cfg, now, nextId, broker, positions_file, trade_log,
                   legacy_logs, baseline_file, price_history, sma_state_file,
                   purchase_dates_file, call>>

\* The process is killed inside save_baselines, in a tick that resets the
\* baseline of its symbol: price and atr are the answers the tick has read.
CrashInSave(price, atr) ==
    /\ pc = "sym"
    /\ price # NoPrice
    /\ ResetRequired(baselines[AllSymbols(cfg)[idx]], price, atr, now)
    /\ baseline_file' = TornFile
    /\ obs' = [kind |-> "killed"]
    /\ pc' = "down"
    /\ Forgotten
    /\ UNCHANGED <<starts, cfg, now, nextId, broker, positions_file, trade_log,
                   legacy_logs, price_history, sma_state_file,
                   purchase_dates_file, call>>

\* A start on a baselines file on which load_baselines raises: the startup
\* block has run when "baselines = load_baselines()" raises, and the process
\* ends with the traceback.
StartupAbort ==
    /\ pc = "down"
    /\ LoadBaselinesRaises(baseline_file)
    /\ starts <= MaxRestarts
    /\ starts' = starts + 1
    /\ LET M == migrate_trade_log(trade_log, legacy_logs, now)
           B == bootstrap(<<"X">>,
                          [open_positions |-> load_positions(positions_file),
                           positions_file |-> positions_file,
                           trade_log |-> M.trade_log,
                           nextId |-> nextId],
                          broker, now)
       IN  /\ B.nextId <= MaxTrades + 1
           /\ legacy_logs' = M.legacy_logs
           /\ positions_file' = B.positions_file
           /\ trade_log' = B.trade_log
           /\ nextId' = B.nextId
    /\ obs' = [kind |-> "aborted"]
    /\ UNCHANGED <<pc, idx, cfg, now, broker, cash, open_positions, baselines,
                   baseline_file, price_windows, price_history, sma_state_file,
                   purchase_dates, purchase_dates_file, summary,
                   sent_closing_email, last_trading_date, call>>

\* Time passes: backoff and cooldown sleeps, time.sleep(60), downtime.
Advance(t) ==
    /\ t > now
    /\ now' = t
    /\ UNCHANGED <<pc, starts, idx, cfg, nextId, broker, cash, open_positions,
                   positions_file, trade_log, legacy_logs, baselines, baseline_file, price_windows,
                   price_history, sma_state_file, purchase_dates, purchase_dates_file,
                   summary, sent_closing_email, last_trading_date, obs, call>>

\* ------------------------------------------------------------ specifications

\* Positions held at the broker before the first start.
InitialHoldings == {Flat, [qty |-> 1000000, avg_entry |-> 10]}

InitFiles ==
    /\ positions_file = NoFile
    /\ baseline_file = NoFile
    /\ sma_state_file = NoDatedFile
    /\ purchase_dates_file = NoDatedFile
    /\ price_history = EmptyMap(<<>>)
    /\ legacy_logs = <<>>

InitMemory ==
    /\ idx = 0
    /\ cash = 0
    /\ open_positions = <<>>
    /\ baselines = EmptyMap(NoBaseline)
    /\ price_windows = EmptyMap(<<>>)
    /\ purchase_dates = EmptyMap(NoDate)
    /\ summary = <<>>
    /\ sent_closing_email = FALSE
    /\ last_trading_date = NoDate
    /\ obs = NoObs
    /\ call = NoCall

InitRun ==
    /\ pc = "down"
    /\ starts = 0
    /\ now = 600
    /\ nextId = 1
    /\ InitFiles
    /\ InitMemory
    /\ trade_log = LegacyTradeLog
    /\ broker \in [Symbols -> InitialHoldings]

Init == cfg = DefaultConfig /\ InitRun
InitEnv == cfg = EnvConfig /\ InitRun

Next ==
    \/ Startup
    \/ \E c \in {"ok", "none"}, a \in {Blank} \cup {Some(v) : v \in CashValues} :
           ClockStep(c, a)
    \/ \E p \in Prices \cup {NoPrice}, pa \in {"ok"}, a \in ATRs,
          o \in {"ack", "none"} : SymbolStep(p, pa, a, o)
    \/ \E a \in {"ok", "none"} : EodStep(a)
    \/ Crash
    \/ \E t \in TimePoints : Advance(t)

Spec == Init /\ [][Next]_vars
SpecEnv == InitEnv /\ [][Next]_vars

\* The run with kills that fall inside a write of the baselines file.
NextCrash ==
    \/ Next
    \/ \E p \in Prices, a \in ATRs : CrashInSave(p, a)
    \/ StartupAbort

SpecCrash == Init /\ [][NextCrash]_vars

\* The run of both bots, each with a symbol of its own, with broker calls
\* that fail on every retry.
InitFaults == cfg = TwoBotConfig /\ InitRun

\* The prices the broker reports in this run.
FaultPrices == {10, 12}

NextFaults ==
    \/ Startup
    \/ \E c \in {"ok", "none"}, a \in {Blank} \cup {Some(v) : v \in CashValues} :
           ClockStep(c, a)
    \/ \E p \in FaultPrices \cup {NoPrice}, a \in {0}, o \in {"ack", "none"} :
           SymbolStep(p, "ok", a, o)
    \/ SymbolRaises
    \/ \E a \in {"ok", "none"} : EodStep(a)
    \/ \E t \in TimePoints : Advance(t)

SpecFaults == InitFaults /\ [][NextFaults]_vars

\* The run through the close of the market, with termination signals.
\* Instants at which this run is observed: 15:50 and 16:05 of day 0, and
\* 10:00 of every day.
CloseTimesOfDay == {950, 965}
CloseTimePoints == {d * MinutesPerDay + 600 : d \in 0..MaxDay} \cup CloseTimesOfDay

NextSignal ==
    \/ Startup
    \/ \E a \in {Blank} \cup {Some(v) : v \in CashValues} : ClockStep("ok", a)
    \/ \E p \in Prices \cup {NoPrice}, a \in {0}, o \in {"ack", "none"} :
           SymbolStep(p, "ok", a, o)
    \/ \E a \in {"ok", "none"} : EodStep(a)
    \/ \E f \in ShutdownFailures : Shutdown(f)
    \/ \E m \in BOOLEAN : SignalAtStartup(m)
    \/ \E t \in CloseTimePoints : Advance(t)

SpecSignal == Init /\ [][NextSignal]_vars

\* The run of one trading day into the evening, with faults in every part
\* of a cycle and with termination signals.
NextLoop ==
    \/ Startup
    \/ \E c \in {"ok", "none"}, a \in {Blank, Some(1000)} : ClockStep(c, a)
    \/ \E p \in FaultPrices \cup {NoPrice}, o \in {"ack", "none"} :
           SymbolStep(p, "ok", 0, o)
    \/ SymbolRaises
    \/ \E a \in {"ok", "none"} : EodStep(a)
    \/ Shutdown("none")
    \/ \E t \in CloseTimesOfDay : Advance(t)

\* A cycle that has begun runs on: the interpreter goes through the symbols
\* and the end of the cycle, whatever the broker answers.
CycleRuns ==
    \/ \E p \in FaultPrices \cup {NoPrice}, o \in {"ack", "none"} :
           SymbolStep(p, "ok", 0, o)
    \/ SymbolRaises
    \/ \E a \in {"ok", "none"} : EodStep(a)

SpecLoop == Init /\ [][NextLoop]_vars /\ WF_vars(CycleRuns)

\* The run of one trading day with the ATR unavailable, small and large
\* against the price, every broker call answering.
StopATRs == {0, 10, 40}

NextStop ==
    \/ Startup
    \/ ClockStep("ok", Some(1000))
    \/ \E p \in Prices, a \in StopATRs, o \in {"ack", "none"} : SymbolStep(p, "ok", a, o)
    \/ EodStep("ok")
    \/ \E t \in TimesOfDay : Advance(t)

SpecStop == Init /\ [][NextStop]_vars

\* ------------------------------------------------- the ledger called directly

\* Symbols, quantities and prices of direct calls of execute_buy and
\* execute_sell (as in tests/test_main.py).
LedgerSymbols == {"X", "Y"}
LedgerQuantities == {3}
LedgerPrices == {10, 12}

\* What is kept of a call for the next one to refer to.
CallOf(c) == IF c.op = "none" THEN c
             ELSE [op |-> c.op, symbol |-> c.symbol, quantity |-> c.quantity,
                   price |-> c.price, had |-> c.had, ret |-> c.ret]

LedgerFrame == UNCHANGED <<pc, starts, idx, cfg, now, broker, cash, legacy_logs, baselines,
                           baseline_file, price_windows, price_history, sma_state_file,
                           purchase_dates, purchase_dates_file, summary,
                           sent_closing_email, last_trading_date, obs>>

\* trade_id = execute_buy(s, q, e, open_positions), disk being the outcome
\* of the write to the positions file.
CallBuyDisk(s, q, e, disk) ==
    /\ nextId <= MaxTrades
    /\ LET R == execute_buy(s, q, e, [Ledger EXCEPT !.disk = disk], now, nextId)
       IN  /\ open_positions' = R.open_positions
           /\ positions_file' = R.positions_file
           /\ trade_log' = R.trade_log
           /\ call' = [op |-> "execute_buy", symbol |-> s, quantity |-> q, price |-> e,
                       had |-> RecordsOf(open_positions, s) # {},
                       ret |-> R.ret, profit |-> R.profit, prev |-> CallOf(call)]
    /\ nextId' = nextId + 1
    /\ LedgerFrame

\* trade_id, profit = execute_sell(s, q, x, open_positions), disk being the
\* outcome of the write to the positions file.
CallSellDisk(s, q, x, disk) ==
    /\ LET R == execute_sell(s, q, x, [Ledger EXCEPT !.disk = disk], now)
       IN  /\ open_positions' = R.open_positions
           /\ positions_file' = R.positions_file
           /\ trade_log' = R.trade_log
           /\ call' = [op |-> "execute_sell", symbol |-> s, quantity |-> q, price |-> x,
                       had |-> RecordsOf(open_positions, s) # {},
                       ret |-> R.ret, profit |-> R.profit, prev |-> CallOf(call)]
    /\ UNCHANGED nextId
    /\ LedgerFrame

\* The calls with a positions file that is written.
CallBuy(s, q, e) == CallBuyDisk(s, q, e, "ok")
CallSell(s, q, x) == CallSellDisk(s, q, x, "ok")

InitLedger ==
    /\ pc = "unit"
    /\ starts = 0
    /\ cfg = DefaultConfig
    /\ now = 600
    /\ nextId = 1
    /\ InitFiles
    /\ InitMemory
    /\ trade_log = NoTradeLog
    /\ broker = EmptyMap(Flat)

NextLedger ==
    \/ \E s \in LedgerSymbols, q \in LedgerQuantities, e \in LedgerPrices : CallBuy(s, q, e)
    \/ \E s \in LedgerSymbols, q \in LedgerQuantities, x \in LedgerPrices : CallSell(s, q, x)

SpecLedger == InitLedger /\ [][NextLedger]_vars

\* The calls with a positions file whose write may fail.
NextLedgerDisk ==
    \/ \E s \in LedgerSymbols, q \in LedgerQuantities, e \in LedgerPrices,
          d \in {"ok", "fail"} : CallBuyDisk(s, q, e, d)
    \/ \E s \in LedgerSymbols, q \in LedgerQuantities, x \in LedgerPrices,
          d \in {"ok", "fail"} : CallSellDisk(s, q, x, d)

SpecLedgerDisk == InitLedger /\ [][NextLedgerDisk]_vars

\* ------------------------------------------- migrate_trade_log called directly

\* Most rows that log_trade appends to a trade log.
MaxLogRows == 3
\* The trade logs found at the start (as in tests/test_main.py): none, one
\* of the revision without trade_id, with and without rows, and a current one.
FoundTradeLogs ==
    {NoTradeLog, LegacyTradeLog, [header |-> "legacy", rows |-> <<>>],
     [header |-> "current", rows |-> <<>>]}

MigrateFrame == UNCHANGED <<pc, starts, idx, cfg, now, nextId, broker, cash,
                            open_positions, positions_file, baselines, baseline_file,
                            price_windows, price_history, sma_state_file,
                            purchase_dates, purchase_dates_file, summary,
                            sent_closing_email, last_trading_date, obs>>

\* log_trade(action, s, q, p, trade_id=id, entry_price=e, profit=pr); Blank
\* is the default None of entry_price and of profit.
CallLogTradeWith(action, s, q, p, id, e, pr) ==
    /\ Len(trade_log.rows) < MaxLogRows
    /\ trade_log' = log_trade(trade_log, now, action, s, q, p, id, e, pr)
    /\ call' = [op |-> "log_trade", before |-> trade_log,
                args |-> [action |-> action, symbol |-> s, quantity |-> q,
                          price |-> p, trade_id |-> id, entry_price |-> e,
                          profit |-> pr]]
    /\ UNCHANGED legacy_logs
    /\ MigrateFrame

\* log_trade(action, s, q, p, trade_id=id)
CallLogTrade(action, s, q, p, id) == CallLogTradeWith(action, s, q, p, id, Blank, Blank)

\* migrate_trade_log()
CallMigrate ==
    /\ LET M == migrate_trade_log(trade_log, legacy_logs, now)
       IN  /\ trade_log' = M.trade_log
           /\ legacy_logs' = M.legacy_logs
    /\ call' = [op |-> "migrate_trade_log", before |-> trade_log]
    /\ MigrateFrame

InitMigrate ==
    /\ pc = "unit"
    /\ starts = 0
    /\ cfg = DefaultConfig
    /\ now = 600
    /\ nextId = 1
    /\ InitFiles
    /\ InitMemory
    /\ broker = EmptyMap(Flat)
    /\ trade_log \in FoundTradeLogs

NextMigrate ==
    \/ \E a \in {"buy", "sell"}, s \in Symbols, q \in LedgerQuantities,
          p \in LedgerPrices, id \in {1} : CallLogTrade(a, s, q, p, id)
    \/ CallMigrate

SpecMigrate == InitMigrate /\ [][NextMigrate]_vars

\* ---------------------------------------------- retry_api_call called directly

\* retries, the default every call of retry_api_call in main.py runs with.
Retries == 5
\* Largest CIRCUIT_BREAKER_THRESHOLD the environment sets (the default is 5).
MaxThreshold == 7

\* The exceptions the wrapped broker call raises, by the phrase their
\* message carries; cased says that str(e) spells the phrase with capitals.
BrokerExceptions ==
    {[phrase |-> ph, cased |-> c] :
        ph \in {"pattern day trading protection", "position does not exist",
                "symbol not found", "connection reset"},
        c \in BOOLEAN}

\* "pattern day trading protection" in str(e).lower()
IsPdtRejection(e) == e.phrase = "pattern day trading protection"

\* any(msg in str(e) for msg in ("position does not exist", "symbol not found")):
\* the test reads str(e) as it is spelled.
IsEmptyResult(e) ==
    /\ ~e.cased
    /\ e.phrase \in {"position does not exist", "symbol not found"}

\* The exception ends the invocation at once with None.
ShortCircuits(e) == IsPdtRejection(e) \/ IsEmptyResult(e)

\* In this run the variable call holds the state of retry_api_call: the
\* global error_streak, CIRCUIT_BREAKER_THRESHOLD as read from the
\* environment, and, of the invocation in progress or last ended, the loop
\* index i, the number of calls of func, the number of backoff and cooldown
\* sleeps, and how it ended (pc is "idle" when none is in progress).
error_streak == call.error_streak
CIRCUIT_BREAKER_THRESHOLD == call.threshold

RetryFrame == UNCHANGED <<pc, starts, idx, cfg, now, nextId, broker, cash,
                          open_positions, positions_file, trade_log, legacy_logs,
                          baselines, baseline_file, price_windows, price_history,
                          sma_state_file, purchase_dates, purchase_dates_file,
                          summary, sent_closing_email, last_trading_date, obs>>

\* retry_api_call(func, ...) is entered.
RetryEnter ==
    /\ call.pc = "idle"
    /\ call' = [call EXCEPT !.pc = "try", !.i = 0, !.attempts = 0, !.backoffs = 0,
                            !.cooldowns = 0, !.outcome = "running"]
    /\ RetryFrame

\* func returns: error_streak = 0; return result.
RetrySuccess ==
    /\ call.pc = "try"
    /\ call.i < Retries
    /\ call' = [call EXCEPT !.pc = "idle", !.attempts = @ + 1,
                            !.error_streak = 0, !.outcome = "result"]
    /\ RetryFrame

\* The except block as it would be without the circuit breaker.
OnException_NoBreaker(c, e) ==
    IF ShortCircuits(e)
    THEN [c EXCEPT !.pc = "idle", !.attempts = @ + 1,
                   !.outcome = IF IsPdtRejection(e) THEN "skipped" ELSE "empty"]
    ELSE [c EXCEPT !.attempts = @ + 1, !.backoffs = @ + 1,
                   !.error_streak = @ + 1, !.i = @ + 1]

\* The except block as it would be in a loop that tries again without
\* counting the pass ("while True" in place of "for i in range(retries)").
OnException_SamePass(c, e) ==
    IF ShortCircuits(e)
    THEN [c EXCEPT !.pc = "idle", !.attempts = @ + 1,
                   !.outcome = IF IsPdtRejection(e) THEN "skipped" ELSE "empty"]
    ELSE IF c.error_streak + 1 >= c.threshold
    THEN [c EXCEPT !.pc = "idle", !.attempts = @ + 1, !.cooldowns = @ + 1,
                   !.error_streak = 0, !.outcome = "tripped"]
    ELSE [c EXCEPT !.attempts = @ + 1, !.backoffs = @ + 1,
                   !.error_streak = @ + 1]

\* The except block as it would be if the breaker tripped only above the
\* threshold.
OnException_Above(c, e) ==
    IF ShortCircuits(e)
    THEN [c EXCEPT !.pc = "idle", !.attempts = @ + 1,
                   !.outcome = IF IsPdtRejection(e) THEN "skipped" ELSE "empty"]
    ELSE IF c.error_streak + 1 > c.threshold
    THEN [c EXCEPT !.pc = "idle", !.attempts = @ + 1, !.cooldowns = @ + 1,
                   !.error_streak = 0, !.outcome = "tripped"]
    ELSE [c EXCEPT !.attempts = @ + 1, !.backoffs = @ + 1,
                   !.error_streak = @ + 1, !.i = @ + 1]

\* The except block as it would be if the backoff sleep came before the
\* tests of the message.
OnException_SleepFirst(c, e) ==
    IF ShortCircuits(e)
    THEN [c EXCEPT !.pc = "idle", !.attempts = @ + 1, !.backoffs = @ + 1,
                   !.outcome = IF IsPdtRejection(e) THEN "skipped" ELSE "empty"]
    ELSE IF c.error_streak + 1 >= c.threshold
    THEN [c EXCEPT !.pc = "idle", !.attempts = @ + 1, !.cooldowns = @ + 1,
                   !.error_streak = 0, !.outcome = "tripped"]
    ELSE [c EXCEPT !.attempts = @ + 1, !.backoffs = @ + 1,
                   !.error_streak = @ + 1, !.i = @ + 1]

\* The except block of the loop body on exception e, c being the state of
\* retry_api_call: return None on a recognized message; else count the
\* failure, and either trip the breaker (cooldown sleep, error_streak = 0,
\* return None) or sleep the backoff and go to the next pass.
OnException(c, e) ==
    IF ShortCircuits(e)
    THEN [c EXCEPT !.pc = "idle", !.attempts = @ + 1,
                   !.outcome = IF IsPdtRejection(e) THEN "skipped" ELSE "empty"]
    ELSE IF c.error_streak + 1 >= c.threshold
    THEN [c EXCEPT !.pc = "idle", !.attempts = @ + 1, !.cooldowns = @ + 1,
                   !.error_streak = 0, !.outcome = "tripped"]
    ELSE [c EXCEPT !.attempts = @ + 1, !.backoffs = @ + 1,
                   !.error_streak = @ + 1, !.i = @ + 1]

\* func raises e.
RetryFailure(e) ==
    /\ call.pc = "try"
    /\ call.i < Retries
    /\ call' = OnException(call, e)
    /\ RetryFrame

\* The for loop is exhausted: raise RuntimeError.
RetryExhausted ==
    /\ call.pc = "try"
    /\ call.i = Retries
    /\ call' = [call EXCEPT !.pc = "idle", !.outcome = "raised"]
    /\ RetryFrame

InitRetry ==
    /\ pc = "unit"
    /\ starts = 0
    /\ cfg = DefaultConfig
    /\ now = 600
    /\ nextId = 1
    /\ InitFiles
    /\ idx = 0
    /\ cash = 0
    /\ open_positions = <<>>
    /\ baselines = EmptyMap(NoBaseline)
    /\ price_windows = EmptyMap(<<>>)
    /\ purchase_dates = EmptyMap(NoDate)
    /\ summary = <<>>
    /\ sent_closing_email = FALSE
    /\ last_trading_date = NoDate
    /\ obs = NoObs
    /\ trade_log = NoTradeLog
    /\ broker = EmptyMap(Flat)
    /\ call \in {[op |-> "retry_api_call", pc |-> "idle", threshold |-> th,
                  error_streak |-> 0, i |-> 0, attempts |-> 0, backoffs |-> 0,
                  cooldowns |-> 0, outcome |-> "none"] : th \in 1..MaxThreshold}

NextRetry ==
    \/ RetryEnter
    \/ RetrySuccess
    \/ \E e \in BrokerExceptions : RetryFailure(e)
    \/ RetryExhausted

SpecRetry == InitRetry /\ [][NextRetry]_vars

\* An invocation that has been entered runs on: func returns or raises, the
\* sleeps end, and the interpreter goes to the next statement.
RetryRuns ==
    \/ RetrySuccess
    \/ \E e \in BrokerExceptions : RetryFailure(e)
    \/ RetryExhausted

SpecRetryLive == SpecRetry /\ WF_vars(RetryRuns)

\* --------------------------------------------------- log_trade called directly

\* The values given for entry_price and for profit: none, 0 and 5.
GivenAmounts == {Blank, Some(0), Some(5)}

NextLogTrade ==
    \E a \in {"buy", "sell"}, id \in {NoTradeId, 1}, e \in GivenAmounts,
       pr \in GivenAmounts : CallLogTradeWith(a, "X", 2, 10, id, e, pr)

SpecLogTrade == InitMigrate /\ [][NextLogTrade]_vars

\* ---------------------------------------------- validate_trades called directly

\* The trade_ids of the rows handed to validate_trades; NoTradeId is the
\* empty trade_id that log_trade writes by default.
LoggedTradeIds == {NoTradeId, 1, 2}

\* validate_trades()
CallValidate ==
    /\ call' = [op |-> "validate_trades", log |-> trade_log,
                warnings |-> validate_trades(trade_log)]
    /\ UNCHANGED <<trade_log, legacy_logs>>
    /\ MigrateFrame

NextValidate ==
    \/ \E a \in {"buy", "sell"}, s \in Symbols, q \in LedgerQuantities,
          id \in LoggedTradeIds : CallLogTrade(a, s, q, 10, id)
    \/ CallValidate

SpecValidate == InitMigrate /\ [][NextValidate]_vars

\* ----------------------------------------------- load_positions called directly

\* Most entries of a positions file found at the start.
MaxEntries == 3
\* Most rows of a price-history log found at the start.
MaxFoundRows == 3

\* The entries found under trade_id id: one as save_positions writes it, one
\* without entry_price, one without open_time, and one whose open_time is
\* not an isoformat string.
FoundEntries(id) ==
    {[trade_id |-> id, symbol |-> "X", quantity |-> 3, entry_price |-> 10,
      open_time |-> IsoFormat(Timestamp(0))],
     [trade_id |-> id, symbol |-> "X", quantity |-> 3,
      open_time |-> IsoFormat(Timestamp(0))],
     [trade_id |-> id, symbol |-> "X", quantity |-> 3, entry_price |-> 10],
     [trade_id |-> id, symbol |-> "X", quantity |-> 3, entry_price |-> 10,
      open_time |-> [text |-> "yesterday"]]}

\* The positions files found at the start: none, one that is not JSON, and
\* the files of at most MaxEntries entries.
FoundPositionsFiles ==
    {NoFile, TornFile} \cup
    {[exists |-> TRUE, data |-> d] :
        d \in UNION {{q \in [1..n -> UNION {FoundEntries(id) : id \in 1..n}] :
                         \A i \in 1..n : q[i].trade_id = i} : n \in 0..MaxEntries}}

\* open_positions = load_positions()
CallLoadPositions ==
    /\ open_positions' = load_positions(positions_file)
    /\ call' = [op |-> "load_positions", file |-> positions_file]
    /\ UNCHANGED <<positions_file, trade_log, nextId>>
    /\ LedgerFrame

\* save_positions(open_positions)
CallSavePositions ==
    /\ positions_file' = save_positions(open_positions)
    /\ call' = [op |-> "save_positions", positions |-> open_positions]
    /\ UNCHANGED <<open_positions, trade_log, nextId>>
    /\ LedgerFrame

\* The records held under trade_id id in a ledger in memory.
LedgerRecords(id) ==
    {[trade_id |-> id, symbol |-> s, quantity |-> q, entry_price |-> 10,
      open_time |-> Timestamp(t)] :
        s \in {"X", "Y"}, q \in {1, 3}, t \in {600, 600 + MinutesPerDay}}

\* The ledgers in memory: at most MaxEntries records, each under its own
\* trade_id.
Ledgers ==
    UNION {{q \in [1..n -> UNION {LedgerRecords(id) : id \in 1..n}] :
               \A i \in 1..n : q[i].trade_id = i} : n \in 0..MaxEntries}

\* Either a positions file is found and nothing is in memory, or a ledger is
\* in memory and no file has been written.
InitPositions ==
    /\ pc = "unit"
    /\ starts = 0
    /\ cfg = DefaultConfig
    /\ now = 600
    /\ nextId = 1
    /\ \/ positions_file \in FoundPositionsFiles /\ open_positions = <<>>
       \/ positions_file = NoFile /\ open_positions \in Ledgers
    /\ baseline_file = NoFile
    /\ sma_state_file = NoDatedFile
    /\ purchase_dates_file = NoDatedFile
    /\ price_history = EmptyMap(<<>>)
    /\ legacy_logs = <<>>
    /\ idx = 0
    /\ cash = 0
    /\ baselines = EmptyMap(NoBaseline)
    /\ price_windows = EmptyMap(<<>>)
    /\ purchase_dates = EmptyMap(NoDate)
    /\ summary = <<>>
    /\ sent_closing_email = FALSE
    /\ last_trading_date = NoDate
    /\ obs = NoObs
    /\ call = NoCall
    /\ trade_log = NoTradeLog
    /\ broker = EmptyMap(Flat)

NextPositions ==
    \/ CallLoadPositions
    \/ CallSavePositions

SpecPositions == InitPositions /\ [][NextPositions]_vars

\* ------------------------------------------- a start on files found as they are

\* The entries found under a symbol of baselines.json: none, one as
\* save_baselines writes it, one whose "ts" is no isoformat string, a dict
\* without "price", and a value that is no dict.
FoundBaselineEntries ==
    {Blank,
     Some([price |-> 10, ts |-> IsoFormat(540)]),
     Some([price |-> 10, ts |-> [text |-> "yesterday"]]),
     Some([ts |-> IsoFormat(540)]),
     Some([text |-> "10"])}

FoundBaselineFiles ==
    {NoFile} \cup
    {[exists |-> TRUE, data |-> d] : d \in [Symbols -> FoundBaselineEntries]}

\* The rows found in price_history.csv: rows as record_price_history writes
\* them, a row whose timestamp does not parse, a row of two fields, and a
\* row whose price is no number.
FoundRows ==
    {[timestamp |-> IsoFormat(Timestamp(540)), price |-> 10],
     [timestamp |-> IsoFormat(Timestamp(540)), price |-> 12],
     [timestamp |-> [text |-> "yesterday"], price |-> 10],
     [timestamp |-> IsoFormat(Timestamp(540))],
     [timestamp |-> IsoFormat(Timestamp(540)), price_str |-> "n/a"]}

\* The logs found, all of whose rows are rows of the first symbol.
FoundHistories ==
    {[s \in Symbols |-> IF s = AllSymbols(cfg)[1] THEN q ELSE <<>>] :
        q \in UNION {[1..n -> FoundRows] : n \in 0..MaxFoundRows}}

\* The SMA snapshots found: none, and one saved earlier in the day.
FoundSnapshots ==
    {NoDatedFile, save_sma_state([s \in Symbols |-> <<12, 10>>], 540)}

InitFound ==
    /\ cfg = TwoBotConfig
    /\ pc = "down"
    /\ starts = 0
    /\ now = 600
    /\ nextId = 1
    /\ positions_file = NoFile
    /\ baseline_file \in FoundBaselineFiles
    /\ sma_state_file \in FoundSnapshots
    /\ purchase_dates_file = NoDatedFile
    /\ price_history \in FoundHistories
    /\ legacy_logs = <<>>
    /\ InitMemory
    /\ trade_log = NoTradeLog
    /\ broker = EmptyMap(Flat)

NextFound ==
    \/ Startup
    \/ StartupAbort

SpecFound == InitFound /\ [][NextFound]_vars

\* ------------------------------------------ load_purchase_dates called directly

\* Instants of this run: 01:00 and 10:00 US/Eastern of each day.
PurchaseTimesOfDay == {60, 600}
PurchaseTimePoints ==
    {d * MinutesPerDay + t : d \in 0..MaxDay, t \in PurchaseTimesOfDay}

PurchaseFrame == UNCHANGED <<pc, starts, idx, cfg, nextId, broker, cash, open_positions,
                             positions_file, legacy_logs, baselines, baseline_file,
                             price_windows, price_history, sma_state_file, summary,
                             sent_closing_email, last_trading_date, call>>

\* The part of a tick that buys or sells which bears on the purchase dates:
\* log_trade, and on a buy purchase_dates[sym] = now.date() and
\* save_purchase_dates, which writes the file unless its open or dump fails
\* (saved is FALSE; the exception is logged).  Ticks run while the market is
\* open.
PurchaseTrade(action, s, saved) ==
    /\ ClockIsOpen(now)
    /\ Len(trade_log.rows) < MaxLogRows
    /\ saved => action = "buy"
    /\ trade_log' = log_trade(trade_log, now, action, s, 3, 10, 1, Blank, Blank)
    /\ purchase_dates' = IF action = "buy"
                         THEN [purchase_dates EXCEPT ![s] = DatePT(now)]
                         ELSE purchase_dates
    /\ purchase_dates_file' = IF saved
                              THEN save_purchase_dates(purchase_dates', now)
                              ELSE purchase_dates_file
    /\ obs' = [kind |-> "logged"]
    /\ UNCHANGED now
    /\ PurchaseFrame

\* save_purchase_dates(purchase_dates), as graceful_shutdown calls it.
PurchaseSave ==
    /\ purchase_dates_file' = save_purchase_dates(purchase_dates, now)
    /\ obs' = [kind |-> "saved"]
    /\ UNCHANGED <<now, trade_log, purchase_dates>>
    /\ PurchaseFrame

\* purchase_dates = load_purchase_dates(), as a start of the process runs it.
PurchaseLoad ==
    /\ purchase_dates' = load_purchase_dates(purchase_dates_file, trade_log, now)
    /\ obs' = [kind |-> "loaded"]
    /\ UNCHANGED <<now, trade_log, purchase_dates_file>>
    /\ PurchaseFrame

\* Time passes.
PurchaseAdvance(t) ==
    /\ t > now
    /\ now' = t
    /\ obs' = [kind |-> "slept"]
    /\ UNCHANGED <<trade_log, purchase_dates, purchase_dates_file>>
    /\ PurchaseFrame

InitPurchase ==
    /\ cfg = TwoBotConfig
    /\ pc = "unit"
    /\ starts = 0
    /\ now = 600
    /\ nextId = 1
    /\ InitFiles
    /\ InitMemory
    /\ trade_log = NoTradeLog
    /\ broker = EmptyMap(Flat)

NextPurchase ==
    \/ \E a \in {"buy", "sell"}, s \in Symbols, sv \in BOOLEAN : PurchaseTrade(a, s, sv)
    \/ PurchaseSave
    \/ PurchaseLoad
    \/ \E t \in PurchaseTimePoints : PurchaseAdvance(t)

SpecPurchase == InitPurchase /\ [][NextPurchase]_vars

\* ------------------------------------------------- compute_sma called directly

\* Longest sequence of prices handed to compute_sma.
MaxPrices == 4
\* The sequences of prices: lists, and what is fed to a window.
PriceSeqs == UNION {[1..n -> Prices] : n \in 0..MaxPrices}

SmaFrame == UNCHANGED <<pc, starts, idx, cfg, now, nextId, broker, cash, open_positions,
                        positions_file, trade_log, legacy_logs, baselines,
                        baseline_file, price_windows, price_history, sma_state_file,
                        purchase_dates, purchase_dates_file, summary,
                        sent_closing_email, last_trading_date, obs>>

\* compute_sma(prices) on the list itself, and compute_sma(window) on
\* window = deque(prices, maxlen=SMA_PERIOD).
CallSma ==
    /\ call.op = "prices"
    /\ call' = [op |-> "compute_sma", prices |-> call.prices,
                ret |-> compute_sma(call.prices),
                of_window |-> compute_sma(LastN(call.prices, SMA_PERIOD))]
    /\ SmaFrame

InitSma ==
    /\ pc = "unit"
    /\ starts = 0
    /\ cfg = DefaultConfig
    /\ now = 600
    /\ nextId = 1
    /\ InitFiles
    /\ idx = 0
    /\ cash = 0
    /\ open_positions = <<>>
    /\ baselines = EmptyMap(NoBaseline)
    /\ price_windows = EmptyMap(<<>>)
    /\ purchase_dates = EmptyMap(NoDate)
    /\ summary = <<>>
    /\ sent_closing_email = FALSE
    /\ last_trading_date = NoDate
    /\ obs = NoObs
    /\ trade_log = NoTradeLog
    /\ broker = EmptyMap(Flat)
    /\ call \in {[op |-> "prices", prices |-> q] : q \in PriceSeqs}

NextSma == CallSma

SpecSma == InitSma /\ [][NextSma]_vars

\* -------------------------------------------- the SMA windows across restarts

\* Symbols and prices of the price-history log and of the SMA snapshot (as
\* in tests/test_load_price_windows.py and test_sma_state_persistence.py).
WinSymbols == {"X", "Y"}
WinPrices == {10, 12}
\* Most rows of the price-history log.
MaxRows == 4

RECURSIVE RowCount(_, _)
RowCount(history, syms) ==
    IF syms = {} THEN 0
    ELSE LET s == CHOOSE x \in syms : TRUE
         IN  Len(history[s]) + RowCount(history, syms \ {s})

WinFrame == UNCHANGED <<pc, starts, idx, cfg, nextId, broker, cash, open_positions,
                        positions_file, trade_log, legacy_logs, baselines,
                        baseline_file, purchase_dates, purchase_dates_file, summary,
                        sent_closing_email, last_trading_date, call>>

\* The part of a tick that feeds the SMA: record_price_history, with every
\* row of the log kept, and price_windows[sym].append(price).
WinTick(s, p) ==
    /\ RowCount(price_history, WinSymbols) < MaxRows
    /\ price_history' = [price_history EXCEPT ![s] =
                             Append(@, [timestamp |-> IsoFormat(Timestamp(now)),
                                        price |-> p])]
    /\ price_windows' = [price_windows EXCEPT ![s] = LastN(Append(@, p), SMA_PERIOD)]
    /\ obs' = [kind |-> "appended"]
    /\ UNCHANGED <<now, sma_state_file>>
    /\ WinFrame

\* save_sma_state(price_windows), as graceful_shutdown calls it.
WinSave ==
    /\ sma_state_file' = save_sma_state(price_windows, now)
    /\ obs' = [kind |-> "saved"]
    /\ UNCHANGED <<now, price_history, price_windows>>
    /\ WinFrame

\* price_windows = load_price_windows(), as a start of the process runs it.
WinLoad ==
    /\ price_windows' = load_price_windows(price_history, sma_state_file, now)
    /\ obs' = [kind |-> "loaded"]
    /\ UNCHANGED <<now, price_history, sma_state_file>>
    /\ WinFrame

\* The next calendar day begins.
WinNextDay ==
    /\ DateET(now) < MaxDay
    /\ now' = now + MinutesPerDay
    /\ obs' = [kind |-> "slept"]
    /\ UNCHANGED <<price_history, price_windows, sma_state_file>>
    /\ WinFrame

InitWindows ==
    /\ pc = "unit"
    /\ starts = 0
    /\ cfg = DefaultConfig
    /\ now = 600
    /\ nextId = 1
    /\ positions_file = NoFile
    /\ baseline_file = NoFile
    /\ purchase_dates_file = NoDatedFile
    /\ legacy_logs = <<>>
    /\ trade_log = NoTradeLog
    /\ broker = EmptyMap(Flat)
    /\ idx = 0
    /\ cash = 0
    /\ open_positions = <<>>
    /\ baselines = EmptyMap(NoBaseline)
    /\ purchase_dates = EmptyMap(NoDate)
    /\ summary = <<>>
    /\ sent_closing_email = FALSE
    /\ last_trading_date = NoDate
    /\ obs = NoObs
    /\ call = NoCall
    /\ price_history = [s \in WinSymbols |-> <<>>]
    /\ price_windows = [s \in WinSymbols |-> <<>>]
    /\ sma_state_file = NoDatedFile

NextWindows ==
    \/ \E s \in WinSymbols, p \in WinPrices : WinTick(s, p)
    \/ WinSave
    \/ WinLoad
    \/ WinNextDay

SpecWindows == InitWindows /\ [][NextWindows]_vars

\* ------------------------------------------- a crash and a restart within a day

\* The price-history logs found at the start of the day: none, and one with
\* a row of the day before.
RestartHistories ==
    {[s \in WinSymbols |-> <<>>],
     [s \in WinSymbols |->
         IF s = "X" THEN <<[timestamp |-> IsoFormat(Timestamp(600)), price |-> 12]>>
         ELSE <<>>]}

\* The SMA snapshots found at the start of the day: none, and one saved the
\* day before.
RestartSnapshots ==
    {NoDatedFile, save_sma_state([s \in WinSymbols |-> <<12, 10>>], 600)}

\* The run starts on the second day with empty windows.
InitRestart ==
    /\ pc = "unit"
    /\ starts = 0
    /\ cfg = DefaultConfig
    /\ now = MinutesPerDay + 600
    /\ nextId = 1
    /\ positions_file = NoFile
    /\ baseline_file = NoFile
    /\ purchase_dates_file = NoDatedFile
    /\ legacy_logs = <<>>
    /\ trade_log = NoTradeLog
    /\ broker = EmptyMap(Flat)
    /\ idx = 0
    /\ cash = 0
    /\ open_positions = <<>>
    /\ baselines = EmptyMap(NoBaseline)
    /\ purchase_dates = EmptyMap(NoDate)
    /\ summary = <<>>
    /\ sent_closing_email = FALSE
    /\ last_trading_date = NoDate
    /\ obs = NoObs
    /\ call = NoCall
    /\ price_history \in RestartHistories
    /\ price_windows = [s \in WinSymbols |-> <<>>]
    /\ sma_state_file \in RestartSnapshots

\* Ticks, and kills at a tick boundary followed by a start: the windows in
\* memory are lost and load_price_windows builds them again.
NextRestart ==
    \/ \E s \in WinSymbols, p \in WinPrices : WinTick(s, p)
    \/ WinLoad

SpecRestart == InitRestart /\ [][NextRestart]_vars

\* ------------------------------------------------ the SMA snapshot round trip

\* The windows handed to save_sma_state: every sequence of prices of at most
\* SMA_PERIOD + 1 entries.
SnapshotWindows == UNION {[1..n -> WinPrices] : n \in 0..(SMA_PERIOD + 1)}

\* The price-history logs of this run: none, one with a row of day 0, and
\* one with a row of two fields.
SnapshotHistories ==
    {[s \in WinSymbols |-> <<>>],
     [s \in WinSymbols |->
         IF s = "X" THEN <<[timestamp |-> IsoFormat(Timestamp(600)), price |-> 12]>>
         ELSE <<>>],
     [s \in WinSymbols |->
         IF s = "X" THEN <<[timestamp |-> IsoFormat(Timestamp(600))]>> ELSE <<>>]}

\* save_sma_state(windows) called with the windows in memory.
SnapshotSave ==
    /\ sma_state_file' = save_sma_state(price_windows, now)
    /\ call' = [op |-> "save_sma_state", windows |-> price_windows,
                date |-> DateET(now)]
    /\ obs' = [kind |-> "saved"]
    /\ UNCHANGED <<pc, starts, idx, cfg, now, nextId, broker, cash, open_positions,
                   positions_file, trade_log, legacy_logs, baselines,
                   baseline_file, price_windows, price_history, purchase_dates,
                   purchase_dates_file, summary, sent_closing_email,
                   last_trading_date>>

InitSnapshot ==
    /\ pc = "unit"
    /\ starts = 0
    /\ cfg = DefaultConfig
    /\ now = 600
    /\ nextId = 1
    /\ positions_file = NoFile
    /\ baseline_file = NoFile
    /\ purchase_dates_file = NoDatedFile
    /\ legacy_logs = <<>>
    /\ trade_log = NoTradeLog
    /\ broker = EmptyMap(Flat)
    /\ idx = 0
    /\ cash = 0
    /\ open_positions = <<>>
    /\ baselines = EmptyMap(NoBaseline)
    /\ purchase_dates = EmptyMap(NoDate)
    /\ summary = <<>>
    /\ sent_closing_email = FALSE
    /\ last_trading_date = NoDate
    /\ obs = NoObs
    /\ call = NoCall
    /\ price_history \in SnapshotHistories
    /\ price_windows \in [WinSymbols -> SnapshotWindows]
    /\ sma_state_file = NoDatedFile

NextSnapshot ==
    \/ SnapshotSave
    \/ WinLoad
    \/ WinNextDay

SpecSnapshot == InitSnapshot /\ [][NextSnapshot]_vars

\* ------------------------------------------------------------------- claims

\* The step is one pass of the per-symbol body of the decision loop.
TickStep ==
    /\ pc = "sym"
    /\ obs'.kind = "tick"
    /\ now' = now
    /\ (pc' # pc \/ idx' # idx)

\* The thresholds of a logged tick, from the values it logged.
ObsSellOk(o) == o.price * 1000 >= o.base_price * Triggers(cfg, o.idx).st
ObsStopOk(o) ==
    o.price * 1000 <= Max(o.base_price * 1000 - o.atr * Triggers(cfg, o.idx).sm, 0)
ObsBuyOk(o) == o.price * 1000 <= o.base_price * Triggers(cfg, o.idx).bt

\* C1: in every reachable state of the decision loop the ledger holds at
\* most one open record per symbol.
C1_OneRecordPerSymbol ==
    \A s \in Symbols : Cardinality(RecordsOf(open_positions, s)) <= 1

\* C2: a tick whose buy order ended without a broker acknowledgement (None
\* from a pattern-day-trading rejection or a circuit-breaker trip) creates no
\* ledger record, no trade-log row and no purchase date for the symbol.
C2_BookkeepingOnlyOnFill ==
    [][(TickStep /\ obs'.branch = "buy" /\ obs'.answer = "none")
        => /\ RecordsOf(open_positions', obs'.symbol) = RecordsOf(open_positions, obs'.symbol)
           /\ Len(open_positions') = Len(open_positions)
           /\ trade_log' = trade_log
           /\ purchase_dates'[obs'.symbol] = purchase_dates[obs'.symbol]]_vars

\* C3: every buy or sell order of a tick that the broker accepted appends
\* exactly one trade-log row with the same action and symbol in that tick,
\* also when the ledger has no record for the symbol sold.
C3_AcceptedOrderIsLogged ==
    [][(TickStep /\ obs'.answer = "ack")
        => /\ Len(trade_log'.rows) = Len(trade_log.rows) + 1
           /\ SubSeq(trade_log'.rows, 1, Len(trade_log.rows)) = trade_log.rows
           /\ trade_log'.rows[Len(trade_log'.rows)].action =
                  (IF obs'.branch = "buy" THEN "buy" ELSE "sell")
           /\ trade_log'.rows[Len(trade_log'.rows)].symbol = obs'.symbol]_vars

\* C4: a tick that reads a positive quantity for a symbol whose purchase
\* date is today submits neither a target sell nor a stop sell, whatever the
\* price, and leaves the ledger, the positions file and the trade log
\* unchanged.
C4_SameDaySellGuard ==
    [][(TickStep /\ obs'.qty > 0 /\ purchase_dates[obs'.symbol] = DatePT(now))
        => /\ obs'.branch \notin {"buy", "target", "stop"}
           /\ obs'.answer = "-"
           /\ broker' = broker
           /\ open_positions' = open_positions
           /\ positions_file' = positions_file
           /\ trade_log' = trade_log]_vars

\* A tick took the same-day guard at a price that met a sell threshold.
C4_Witness ==
    /\ obs.kind = "tick"
    /\ obs.branch = "guard"
    /\ obs.qty > 0
    /\ (ObsSellOk(obs) \/ ObsStopOk(obs))

\* The purchase-dates file, saved today, says the symbol was bought today.
SavedPurchaseToday(s) ==
    /\ purchase_dates_file.exists
    /\ purchase_dates_file.date = IsoFormat(DateET(now))
    /\ purchase_dates_file.data[s] = Some(IsoFormat(DatePT(now)))

\* C5: after the process has been stopped and started again, no sell order
\* is submitted for a symbol on the day the saved purchase dates say it was
\* bought.
C5_GuardSurvivesRestart ==
    [][(TickStep /\ starts >= 2 /\ SavedPurchaseToday(obs'.symbol))
        => obs'.branch \notin {"target", "stop"}]_vars

\* C6: in a tick with a warm SMA window that reads a positive quantity,
\* whose price meets both the target-sell and the stop-sell threshold and
\* for which the same-day guard does not apply, one sell order is submitted
\* by the target branch and the summary records it as the target sell.
C6_TieBreakRecordedAsTarget ==
    [][(/\ TickStep
        /\ obs'.qty > 0
        /\ obs'.sma_ready
        /\ purchase_dates[obs'.symbol] # DatePT(now)
        /\ ObsSellOk(obs')
        /\ ObsStopOk(obs'))
        => /\ obs'.branch = "target"
           /\ summary' = Append(summary, [line |-> "SELL (target)",
                                          symbol |-> obs'.symbol])]_vars

\* C7: a tick submits a buy order only if it read quantity 0, the price is
\* at most base * BUY_TRIGGER with base the stored baseline price, the
\* window after appending the price has SMA_PERIOD samples whose mean is
\* below the price, and the time is outside [LUNCH_START, LUNCH_END).
C7_BuyOnlyIfAllowed ==
    [][(TickStep /\ obs'.branch = "buy")
        => LET w == price_windows'[obs'.symbol]
           IN  /\ obs'.qty = 0
               /\ obs'.base_price = baselines'[obs'.symbol].price
               /\ ObsBuyOk(obs')
               /\ Len(w) = SMA_PERIOD
               /\ w[Len(w)] = obs'.price
               /\ obs'.price * SMA_PERIOD > SumSeq(w)
               /\ ~(LUNCH_START <= now % MinutesPerDay /\ now % MinutesPerDay < LUNCH_END)]_vars

\* A tick has submitted a buy order.
C7_Witness ==
    /\ obs.kind = "tick"
    /\ obs.branch = "buy"
    /\ obs.answer = "ack"

\* C8: once the process has been started, every sell row of the current
\* trade log carries a trade_id that a buy row earlier in the same log
\* carries.
C8_SellReferencesPriorBuy ==
    starts >= 1 =>
        \A i \in 1..Len(trade_log.rows) :
            trade_log.rows[i].action = "sell" =>
                /\ trade_log.rows[i].trade_id # NoTradeId
                /\ \E j \in 1..(i - 1) :
                       /\ trade_log.rows[j].action = "buy"
                       /\ trade_log.rows[j].trade_id = trade_log.rows[i].trade_id

\* The current trade log, after a migration, holds a sell row.
C8_Witness ==
    /\ starts >= 1
    /\ legacy_logs # <<>>
    /\ \E i \in 1..Len(trade_log.rows) : trade_log.rows[i].action = "sell"

\* Records of symbol s in the positions file.
FileRecordsOf(file, s) ==
    IF ~file.exists THEN {}
    ELSE {i \in 1..Len(file.data) : file.data[i].symbol = s}

\* The last two calls were execute_buy(s, q, e) on a ledger without a
\* record for s and then execute_sell(s, q, x).
RoundTrip ==
    /\ call.op = "execute_sell"
    /\ call.prev.op = "execute_buy"
    /\ ~call.prev.had
    /\ call.prev.symbol = call.symbol
    /\ call.prev.quantity = call.quantity

\* C9: execute_buy(s, q, e) on a ledger without a record for s followed by
\* execute_sell(s, q, x) returns the trade_id of the buy and the profit
\* (x - e) * q, and leaves neither the ledger nor the positions file with a
\* record for s.
C9_LedgerRoundTrip ==
    RoundTrip =>
        /\ call.ret = call.prev.ret
        /\ call.ret # NoTradeId
        /\ call.profit = Some((call.price - call.prev.price) * call.quantity)
        /\ RecordsOf(open_positions, call.symbol) = {}
        /\ positions_file.exists
        /\ FileRecordsOf(positions_file, call.symbol) = {}

\* A round trip at a profit, with another symbol's record left in the ledger.
C9_Witness ==
    /\ RoundTrip
    /\ call.price > call.prev.price
    /\ open_positions # <<>>

\* C10: execute_sell for a symbol without a record in the ledger returns
\* (None, None) and leaves the ledger, the positions file and the trade log
\* unchanged.
C10_SellWithoutRecord ==
    [][(call'.op = "execute_sell" /\ RecordsOf(open_positions, call'.symbol) = {}
        /\ call' # call)
        => /\ call'.ret = NoTradeId
           /\ call'.profit = Blank
           /\ open_positions' = open_positions
           /\ positions_file' = positions_file
           /\ trade_log' = trade_log]_vars

\* execute_sell has found no record while the ledger held another symbol's.
C10_Witness ==
    /\ call.op = "execute_sell"
    /\ ~call.had
    /\ call.ret = NoTradeId
    /\ open_positions # <<>>

\* The step is a start of the process: the module-level code up to the loop.
StartupStep == pc = "down" /\ pc' = "loop"

PricedTick == TickStep /\ obs'.branch # "skip"

\* C12: a tick resets the baseline of its symbol to (price, now), and saves
\* the baselines, if no baseline exists, or the baseline is older than
\* RESET_HOURS, or the drift exceeds BASELINE_DRIFT while ATR / price exceeds
\* VOLATILITY_FILTER; otherwise it leaves the baselines and their file alone.
C12_BaselineResetRule ==
    [][PricedTick =>
        LET s == obs'.symbol
            bl == baselines[s]
            expired == bl.has /\ (now - bl.ts) > RESET_MINUTES
            drift == bl.has /\ Abs(obs'.price - bl.price) * 100 > BASELINE_DRIFT * bl.price
            volatile == obs'.atr * 100 > VOLATILITY_FILTER * obs'.price
        IN  IF ~bl.has \/ expired \/ (drift /\ volatile)
            THEN /\ baselines' = [baselines EXCEPT ![s] =
                                     [has |-> TRUE, price |-> obs'.price, ts |-> now]]
                 /\ baseline_file' = save_baselines(baselines')
            ELSE /\ baselines' = baselines
                 /\ baseline_file' = baseline_file]_vars

\* A tick has left alone a baseline that is not expired and from which the
\* price has drifted beyond BASELINE_DRIFT, ATR / price being at or below
\* VOLATILITY_FILTER.
C12_Witness ==
    /\ obs.kind = "tick"
    /\ obs.branch # "skip"
    /\ baselines[obs.symbol].has
    /\ baselines[obs.symbol].ts < now
    /\ now - baselines[obs.symbol].ts <= RESET_MINUTES
    /\ Abs(obs.price - baselines[obs.symbol].price) * 100
           > BASELINE_DRIFT * baselines[obs.symbol].price
    /\ obs.atr * 100 <= VOLATILITY_FILTER * obs.price

\* C13: a tick that computes thresholds computes them from the entry price
\* of the position when the quantity it read is positive and from the
\* stored baseline price when it is 0: a buy, target or stop order is
\* submitted only if the price meets the threshold so computed, and a held
\* position is left alone only if it meets neither sell threshold.
C13_ThresholdBase ==
    [][(PricedTick /\ obs'.sma_ready) =>
        LET o == obs'
            trig == Triggers(cfg, o.idx)
            base == IF o.qty > 0 THEN broker[o.symbol].avg_entry
                    ELSE baselines'[o.symbol].price
            buy_ok == o.price * 1000 <= base * trig.bt
            sell_ok == o.price * 1000 >= base * trig.st
            stop_ok == o.price * 1000 <= Max(base * 1000 - o.atr * trig.sm, 0)
        IN  /\ o.base_price = base
            /\ o.branch = "buy" => buy_ok
            /\ o.branch = "target" => sell_ok
            /\ o.branch = "stop" => stop_ok /\ ~sell_ok
            /\ (o.branch = "hold" /\ o.qty > 0) => ~sell_ok /\ ~stop_ok]_vars

\* A tick has sold at the target of the entry price while the stored
\* baseline price was another and its target was not met.
C13_Witness ==
    /\ obs.kind = "tick"
    /\ obs.branch = "target"
    /\ obs.qty > 0
    /\ baselines[obs.symbol].has
    /\ baselines[obs.symbol].price # obs.avg_entry
    /\ obs.price * 1000 < baselines[obs.symbol].price * Triggers(cfg, obs.idx).st

\* C14: a tick that reads a positive quantity for a symbol that has a stored
\* baseline leaves that baseline, price and timestamp, as it was.
C14_BaselineKeptWhileOpen ==
    [][(PricedTick /\ obs'.qty > 0 /\ baselines[obs'.symbol].has)
        => baselines'[obs'.symbol] = baselines[obs'.symbol]]_vars

\* The step ends the process: it is killed or it exits.
ProcessEnds == pc \in {"loop", "sym", "eod"} /\ pc' = "down"

\* C15: while the process runs its loop, the baselines file holds for every
\* symbol the price and timestamp of the in-memory baselines; and when the
\* process is killed, at any point, load_baselines reads from the file left
\* behind, for every symbol, a baseline no older than the one the completed
\* ticks had stored.
C15_BaselineWriteThrough ==
    [][/\ pc \in {"loop", "sym", "eod"} =>
            /\ ~IsTorn(baseline_file)
            /\ load_baselines(baseline_file) = baselines
       /\ ProcessEnds =>
            \A s \in Symbols :
                baselines[s].has =>
                   /\ ~IsTorn(baseline_file')
                   /\ load_baselines(baseline_file')[s].has
                   /\ load_baselines(baseline_file')[s].ts >= baselines[s].ts]_vars

\* The step is a direct call of execute_buy or execute_sell that returns.
LedgerCall == call' # call /\ call'.op \in {"execute_buy", "execute_sell"}

\* C16: when execute_buy or execute_sell returns, the positions file holds
\* exactly the records of the in-memory ledger (a missing file holding
\* none), also when the write to the positions file has failed.
C16_LedgerWriteThrough ==
    [][LedgerCall => load_positions(positions_file') = open_positions']_vars

\* The step is a run of load_price_windows.
LoadStep == pc = "unit" /\ obs'.kind = "loaded"

\* The prices of the rows of symbol s in the price-history log that are
\* dated today (US/Eastern), in the order of the log.
TodaysPrices(s) ==
    LET rows == SelectSeq(price_history[s],
                    LAMBDA r : DateInET(FromIsoFormat(r.timestamp)) = DateET(now))
    IN  [i \in 1..Len(rows) |-> rows[i].price]

\* C17: load_price_windows yields for each symbol the window of today's
\* rows of the price-history log if the log has a row of today for that
\* symbol; otherwise the list the SMA snapshot stores for the symbol if the
\* snapshot is dated today; otherwise an empty window.
C17_WindowPerSymbol ==
    [][LoadStep =>
        \A s \in WinSymbols :
            price_windows'[s] =
                IF TodaysPrices(s) # <<>>
                THEN LastN(TodaysPrices(s), SMA_PERIOD)
                ELSE IF sma_state_file.exists
                        /\ sma_state_file.date = IsoFormat(DateET(now))
                     THEN LastN(sma_state_file.data[s], SMA_PERIOD)
                     ELSE <<>>]_vars

\* C18: from a price-history log that holds a row of today,
\* load_price_windows returns for each symbol the prices of the symbol's rows
\* dated today, the most recent SMA_PERIOD of them, in the order of the
\* log, and no price of a row of an earlier day.
C18_TodaysRowsOnly ==
    [][(LoadStep /\ \E s \in WinSymbols : TodaysPrices(s) # <<>>)
        => \A s \in WinSymbols :
               price_windows'[s] = LastN(TodaysPrices(s), SMA_PERIOD)]_vars

\* load_price_windows has run on a log in which a symbol has a row of an
\* earlier day before more than SMA_PERIOD rows of today at other prices.
C18_Witness ==
    /\ obs.kind = "loaded"
    /\ \E s \in WinSymbols :
           /\ Len(price_history[s]) > Len(TodaysPrices(s))
           /\ Len(TodaysPrices(s)) > SMA_PERIOD
           /\ price_history[s][1].price \notin
                  {TodaysPrices(s)[i] : i \in 1..Len(TodaysPrices(s))}
           /\ price_windows[s] = LastN(TodaysPrices(s), SMA_PERIOD)

\* The sum of the last n values of q, by index.
RECURSIVE SumOfLast(_, _)
SumOfLast(q, n) ==
    IF n = 0 \/ q = <<>> THEN 0
    ELSE q[Len(q)] + SumOfLast(SubSeq(q, 1, Len(q) - 1), n - 1)

\* C19 as claimed: compute_sma returns not-ready for every sequence of fewer
\* than SMA_PERIOD prices, and for every sequence of SMA_PERIOD or more
\* prices the arithmetic mean of exactly its last SMA_PERIOD values.
C19_SmaOfAnySequence ==
    call.op = "compute_sma" =>
        IF Len(call.prices) < SMA_PERIOD
        THEN ~call.ret.ready
        ELSE /\ call.ret.ready
             /\ call.ret.sum * SMA_PERIOD
                    = SumOfLast(call.prices, SMA_PERIOD) * call.ret.len

\* C19 as amended: compute_sma returns not-ready for every sequence of
\* fewer than SMA_PERIOD prices; of a sequence of SMA_PERIOD or more prices
\* it returns the arithmetic mean of all its values, which is the mean of
\* exactly the last SMA_PERIOD prices when the sequence is the window
\* deque(prices, maxlen=SMA_PERIOD) that the callers pass.
C19_SmaOfWindow ==
    call.op = "compute_sma" =>
        IF Len(call.prices) < SMA_PERIOD
        THEN ~call.ret.ready /\ ~call.of_window.ready
        ELSE /\ call.ret.ready
             /\ call.ret.sum * Len(call.prices)
                    = SumOfLast(call.prices, Len(call.prices)) * call.ret.len
             /\ call.of_window.ready
             /\ call.of_window.sum * SMA_PERIOD
                    = SumOfLast(call.prices, SMA_PERIOD) * call.of_window.len

\* compute_sma has been given more than SMA_PERIOD prices whose mean is not
\* the mean of the last SMA_PERIOD of them.
C19_Witness ==
    /\ call.op = "compute_sma"
    /\ Len(call.prices) > SMA_PERIOD
    /\ call.ret.ready
    /\ call.ret.sum * SMA_PERIOD # SumOfLast(call.prices, SMA_PERIOD) * call.ret.len
    /\ call.of_window.ready

\* The step is a run of migrate_trade_log.
MigrateStep == pc = "unit" /\ call'.op = "migrate_trade_log" /\ call' # call

\* C20: migrate_trade_log turns a trade log whose header lacks trade_id into
\* a legacy-suffixed file with the content of the log and puts a fresh log,
\* the current header and no row, in its place; where no log exists it
\* creates such a fresh log; a log with the trade_id header it leaves as it
\* is, and it creates no legacy file.
C20_TradeLogMigration ==
    [][MigrateStep =>
        IF trade_log.header = "legacy"
        THEN /\ Len(legacy_logs') = Len(legacy_logs) + 1
             /\ legacy_logs'[Len(legacy_logs')].log = trade_log
             /\ SubSeq(legacy_logs', 1, Len(legacy_logs)) = legacy_logs
             /\ trade_log' = [header |-> "current", rows |-> <<>>]
        ELSE IF trade_log.header = "none"
        THEN /\ trade_log' = [header |-> "current", rows |-> <<>>]
             /\ legacy_logs' = legacy_logs
        ELSE /\ trade_log' = trade_log
             /\ legacy_logs' = legacy_logs]_vars

\* migrate_trade_log has renamed a log without trade_id that held rows, and
\* has, in a later run on the log it created, to which rows had been
\* appended, left that log alone.
C20_Witness ==
    /\ call.op = "migrate_trade_log"
    /\ call.before.header = "current"
    /\ call.before.rows # <<>>
    /\ trade_log = call.before
    /\ Len(legacy_logs) = 1
    /\ legacy_logs[1].log.header = "legacy"
    /\ legacy_logs[1].log.rows # <<>>


\* The sell rows of the log that validate_trades has read.
SellRows(log) == {i \in 1..Len(log.rows) : log.rows[i].action = "sell"}

\* validate_trades has logged a warning of the kind for the i-th row.
Warned(kind, i) ==
    \E k \in 1..Len(call.warnings) :
        call.warnings[k].kind = kind /\ call.warnings[k].row = i

SellsOf(log, id) == Cardinality({i \in SellRows(log) : log.rows[i].trade_id = id})

C23_FaultIsolation ==
    [][(/\ pc = "sym"
        /\ obs'.kind = "cycle"
        /\ obs'.result = "error"
        /\ idx < Len(AllSymbols(cfg)))
        => pc' = "sym" /\ idx' = idx + 1]_vars


\* The step is the receipt of SIGINT or SIGTERM by the running process.
SignalReceived == obs'.kind = "signal" /\ (pc # "down" \/ starts' # starts)

\* What graceful_shutdown owes when the signal arrives: the SMA windows and
\* the purchase dates are saved unless that very step fails, the early-exit
\* summary is sent (or its sending attempted, where send_email fails) if
\* and only if the summary is non-empty and the end-of-day report has not
\* been sent, and the process exits.
OrderlyShutdown ==
    /\ obs'.failing # "save_sma_state"
           => sma_state_file' = save_sma_state(price_windows, now)
    /\ obs'.failing # "save_purchase_dates"
           => purchase_dates_file' = save_purchase_dates(purchase_dates, now)
    /\ obs'.email # "none" <=> (summary # <<>> /\ ~sent_closing_email)
    /\ obs'.email = "Early Exit Market Summary"
           <=> (summary # <<>> /\ ~sent_closing_email /\ obs'.failing # "send_email")
    /\ pc' = "down"

\* C24 as claimed: a termination signal received at any point of the run,
\* the module-level code before the loop included, triggers the save of the
\* SMA windows, the save of the purchase dates and, if and only if it is
\* due, the early-exit summary, a failing step not preventing the others
\* or the exit.
C24_SignalAtAnyPoint == [][SignalReceived => OrderlyShutdown]_vars

\* C24 as amended: a termination signal received while the polling loop
\* runs, graceful_shutdown being installed, triggers the save of the SMA
\* windows, the save of the purchase dates and, if and only if the summary
\* is non-empty and the end-of-day report has not been sent, the early-exit
\* summary, a failing step not preventing the others or the exit.
C24_SignalInLoop ==
    [][(SignalReceived /\ pc \in {"loop", "sym", "eod"}) => OrderlyShutdown]_vars

\* graceful_shutdown has run with a summary to send: the write of the SMA
\* snapshot failed, and the purchase dates were saved and the early-exit
\* summary sent all the same.
C24_Witness ==
    /\ obs.kind = "signal"
    /\ obs.handler
    /\ obs.failing = "save_sma_state"
    /\ obs.email = "Early Exit Market Summary"
    /\ ~sma_state_file.exists
    /\ purchase_dates_file.exists
    /\ \E s \in Symbols : purchase_dates_file.data[s] # Blank
    /\ pc = "down"


\* The step is a cycle of the process that has run today's session (the
\* day reset has set last_trading_date to today) and now finds the market
\* closed, the market-close time being reached.
ClosedAfterClose ==
    /\ pc = "loop"
    /\ obs'.kind = "cycle"
    /\ obs'.result = "closed"
    /\ is_market_close(now)
    /\ last_trading_date = DateET(now)

\* C25: the Daily Market Summary is delivered once per trading day at
\* market close: a cycle of a trading day that has reached the market-close
\* time leaves the day's summary sent, and the summary is sent only at such
\* a time and only if it has not been sent that day.
C25_DailySummaryAtClose ==
    [][/\ ClosedAfterClose => sent_closing_email'
       /\ (obs'.kind = "email" /\ obs' # obs)
              => /\ is_market_close(now)
                 /\ ~sent_closing_email
                 /\ sent_closing_email']_vars


\* C26: a tick whose window, after the price has been appended, holds fewer
\* than SMA_PERIOD samples submits no buy and no sell order, target or
\* stop, for its symbol, and leaves the ledger, the positions file, the
\* trade log and the purchase dates as they were.
C26_WarmUp ==
    [][(TickStep /\ obs'.branch # "skip"
        /\ Len(price_windows'[obs'.symbol]) < SMA_PERIOD)
        => /\ obs'.branch = "warmup"
           /\ obs'.answer = "-"
           /\ broker' = broker
           /\ open_positions' = open_positions
           /\ positions_file' = positions_file
           /\ trade_log' = trade_log
           /\ purchase_dates' = purchase_dates]_vars

\* A tick in warm-up has read a positive quantity at a price that meets the
\* target-sell threshold, on a day that is not the day of the purchase.
C26_Witness ==
    /\ obs.kind = "tick"
    /\ obs.branch = "warmup"
    /\ Len(price_windows[obs.symbol]) < SMA_PERIOD
    /\ obs.qty > 0
    /\ ObsSellOk(obs)
    /\ purchase_dates[obs.symbol] # DatePT(now)


\* The entries of the file that load_positions was given.
EntriesOf(file) == IF file.exists /\ ~IsTorn(file) THEN file.data ELSE <<>>

\* C27: load_positions returns exactly the well-formed entries of the
\* positions file: every entry that has the four fields and an open_time
\* that parses is loaded with its values, an entry that lacks a field or
\* has an unparsable open_time is skipped, and a missing file yields an
\* empty ledger; it returns in every case.
C27_LoadPositions ==
    call.op = "load_positions" =>
        LET data == EntriesOf(call.file)
            good == {i \in 1..Len(data) :
                        /\ \A f \in {"symbol", "quantity", "entry_price", "open_time"} :
                               f \in DOMAIN data[i]
                        /\ "iso" \in DOMAIN data[i].open_time}
        IN  /\ Len(open_positions) = Cardinality(good)
            /\ \A i \in good :
                   \E k \in 1..Len(open_positions) :
                       /\ open_positions[k].trade_id = data[i].trade_id
                       /\ open_positions[k].symbol = data[i].symbol
                       /\ open_positions[k].quantity = data[i].quantity
                       /\ open_positions[k].entry_price = data[i].entry_price
                       /\ open_positions[k].open_time = data[i].open_time.iso
            /\ ~call.file.exists => open_positions = <<>>

\* load_positions has read a file with a well-formed entry after an entry
\* without a field and an entry with an unparsable open_time, and has
\* returned the well-formed one alone.
C27_Witness ==
    /\ call.op = "load_positions"
    /\ call.file.exists
    /\ ~IsTorn(call.file)
    /\ Len(call.file.data) = 3
    /\ "entry_price" \notin DOMAIN call.file.data[1]
    /\ "open_time" \in DOMAIN call.file.data[2]
    /\ "iso" \notin DOMAIN call.file.data[2].open_time
    /\ Len(open_positions) = 1
    /\ open_positions[1].trade_id = 3


\* The entry of baselines.json is a dict with a "price" and a "ts" that
\* parses.
WellFormedBaseline(entry) ==
    /\ entry # Blank
    /\ "price" \in DOMAIN entry[1]
    /\ "ts" \in DOMAIN entry[1]
    /\ "iso" \in DOMAIN entry[1].ts

\* The prices of the rows of the log that have a timestamp that parses and
\* is dated day, and a price that is a number.
RECURSIVE WellFormedPricesOfDay(_, _)
WellFormedPricesOfDay(rows, day) ==
    IF rows = <<>> THEN <<>>
    ELSE IF /\ "price" \in DOMAIN Head(rows)
            /\ "iso" \in DOMAIN Head(rows).timestamp
            /\ Head(rows).timestamp.iso.et = day
         THEN <<Head(rows).price>> \o WellFormedPricesOfDay(Tail(rows), day)
         ELSE WellFormedPricesOfDay(Tail(rows), day)

\* C28: load_baselines and load_price_windows tolerate a malformed entry or
\* row: a start on a baselines file that parses is not aborted, it loads
\* every well-formed entry of the file and no other, and when the price
\* history has well-formed rows of today it loads every one of them (the
\* last SMA_PERIOD per symbol).
C28_LoadersTolerate ==
    /\ ~IsTorn(baseline_file) => obs.kind # "aborted"
    /\ obs.kind = "startup" /\ baseline_file.exists =>
           \A s \in Symbols :
               IF WellFormedBaseline(baseline_file.data[s])
               THEN /\ baselines[s].has
                    /\ baselines[s].price = baseline_file.data[s][1].price
                    /\ baselines[s].ts = baseline_file.data[s][1].ts.iso
               ELSE ~baselines[s].has
    /\ obs.kind = "startup" =>
           LET rows == [s \in Symbols |->
                           WellFormedPricesOfDay(price_history[s], DateET(now))]
           IN  (\E s \in Symbols : rows[s] # <<>>) =>
                   \A s \in Symbols : price_windows[s] = LastN(rows[s], SMA_PERIOD)


\* The trade log has a buy row of the symbol whose timestamp is dated day.
HasBuyRowDated(log, sym, day) ==
    \E i \in 1..Len(log.rows) :
        /\ log.rows[i].action = "buy"
        /\ log.rows[i].symbol = sym
        /\ log.rows[i].timestamp.iso.pt = day

\* C29: load_purchase_dates returns exactly the entries of the
\* purchase-dates file if the file's stored date is today, none of them if
\* the file is stale or missing, plus today for every symbol that has a buy
\* row dated today in the trade log.
C29_LoadPurchaseDates ==
    obs.kind = "loaded" /\ pc = "unit" =>
        \A s \in Symbols :
            LET today == now \div MinutesPerDay
                fresh == /\ purchase_dates_file.exists
                         /\ purchase_dates_file.date = [iso |-> today]
            IN  purchase_dates[s] =
                    IF HasBuyRowDated(trade_log, s, today) THEN today
                    ELSE IF fresh /\ purchase_dates_file.data[s] # <<>>
                         THEN purchase_dates_file.data[s][1].iso
                         ELSE NoDate

\* load_purchase_dates has returned an entry of an earlier day from the file
\* dated today and an entry of today from a buy row of the trade log that
\* the file does not have.
C29_Witness ==
    /\ obs.kind = "loaded"
    /\ pc = "unit"
    /\ purchase_dates_file.exists
    /\ purchase_dates_file.date = IsoFormat(DateET(now))
    /\ \E s, u \in Symbols :
           /\ purchase_dates_file.data[s] # Blank
           /\ purchase_dates[s] = FromIsoFormat(purchase_dates_file.data[s][1])
           /\ purchase_dates[s] < DateET(now)
           /\ purchase_dates_file.data[u] = Blank
           /\ HasBuyRowDated(trade_log, u, DateET(now))
           /\ purchase_dates[u] = DateET(now)


\* The price history has no row of the day that yields a price.
NoUsableHistory(history, day) ==
    \A s \in DOMAIN history : \A i \in 1..Len(history[s]) :
        ~ /\ "price" \in DOMAIN history[s][i]
          /\ "iso" \in DOMAIN history[s][i].timestamp
          /\ history[s][i].timestamp.iso.et = day

\* load_price_windows has run on the day of the last save_sma_state, with no
\* usable price history.
LoadedFromSnapshot ==
    /\ obs.kind = "loaded"
    /\ call.op = "save_sma_state"
    /\ call.date = now \div MinutesPerDay
    /\ NoUsableHistory(price_history, now \div MinutesPerDay)

\* C30: save_sma_state(windows) followed on the same day by
\* load_price_windows with no usable price history returns, for every
\* symbol, the prices of the saved window in their order, bounded to the
\* last SMA_PERIOD entries.
C30_SnapshotRoundTrip ==
    LoadedFromSnapshot =>
        \A s \in DOMAIN call.windows :
            LET w == call.windows[s]
                n == IF Len(w) <= SMA_PERIOD THEN Len(w) ELSE SMA_PERIOD
            IN  /\ Len(price_windows[s]) = n
                /\ \A k \in 1..n : price_windows[s][k] = w[Len(w) - n + k]

\* A window of more than SMA_PERIOD prices and a window still warming up
\* were saved and loaded back from the snapshot.
C30_Witness ==
    /\ LoadedFromSnapshot
    /\ \E s, u \in DOMAIN call.windows :
           /\ Len(call.windows[s]) > SMA_PERIOD
           /\ call.windows[s][1] # call.windows[s][Len(call.windows[s])]
           /\ Len(price_windows[s]) = SMA_PERIOD
           /\ call.windows[u] # <<>>
           /\ Len(call.windows[u]) < SMA_PERIOD
           /\ price_windows[u] = call.windows[u]


\* The ledger has, under the trade_id of the record, a record with the same
\* symbol, quantity, entry price and open time.
HoldsRecord(ledger, r) ==
    \E k \in 1..Len(ledger) :
        /\ ledger[k].trade_id = r.trade_id
        /\ ledger[k].symbol = r.symbol
        /\ ledger[k].quantity = r.quantity
        /\ ledger[k].entry_price = r.entry_price
        /\ ledger[k].open_time = r.open_time

C32_LogTradeAppends ==
    [][(call'.op = "log_trade" /\ trade_log' # trade_log) =>
           LET n == Len(trade_log.rows)
               row == trade_log'.rows[n + 1]
               given == call'.args
           IN  /\ Len(trade_log'.rows) = n + 1
               /\ \A i \in 1..n : trade_log'.rows[i] = trade_log.rows[i]
               /\ row.action = given.action
               /\ row.trade_id = given.trade_id
               /\ row.symbol = given.symbol
               /\ row.quantity = given.quantity
               /\ row.price = given.price
               /\ row.entry_price = given.entry_price
               /\ row.profit = given.profit
               /\ trade_log.header = "none" => trade_log'.header = "current"
               /\ trade_log.header # "none" => trade_log'.header = trade_log.header]_vars

\* log_trade has appended a row with an entry price of 0 and no profit to a
\* log that had a row, and a first row to a file it created.
C32_Witness ==
    /\ call.op = "log_trade"
    /\ "args" \in DOMAIN call
    /\ call.before.header = "current"
    /\ Len(call.before.rows) = 1
    /\ Len(trade_log.rows) = 2
    /\ call.args.entry_price = Some(0)
    /\ trade_log.rows[2].entry_price = Some(0)
    /\ trade_log.rows[2].profit = Blank
    /\ trade_log.rows[1] = call.before.rows[1]


\* C33: an exception classified as an empty result or as a pattern-day-trading
\* rejection ends the invocation of retry_api_call at once with None: func is
\* not called again in the invocation and no backoff or cooldown sleep is
\* performed for it.
C33_ShortCircuit ==
    [][(call.pc = "try" /\ call'.outcome \in {"skipped", "empty"}) =>
           /\ call'.pc = "idle"
           /\ call'.attempts = call.attempts + 1
           /\ call'.backoffs = call.backoffs
           /\ call'.cooldowns = call.cooldowns]_vars

\* An invocation has ended with None on a recognized message after two
\* transient failures, with no sleep beyond their two backoffs.
C33_Witness ==
    /\ call.pc = "idle"
    /\ call.outcome \in {"skipped", "empty"}
    /\ call.attempts = 3
    /\ call.backoffs = 2
    /\ call.cooldowns = 0


\* C34: whenever no invocation of retry_api_call is in progress,
\* 0 <= error_streak < CIRCUIT_BREAKER_THRESHOLD; error_streak is 0 right
\* after an invocation that ended with a successful broker call and right
\* after a breaker trip.
C34_ErrorStreakRange ==
    call.pc = "idle" =>
        /\ 0 <= call.error_streak
        /\ call.error_streak < call.threshold
        /\ call.outcome \in {"result", "tripped"} => call.error_streak = 0

\* The breaker has tripped in an invocation that made fewer calls than the
\* threshold, on failures counted in an earlier invocation.
C34_Witness ==
    /\ call.pc = "idle"
    /\ call.outcome = "tripped"
    /\ call.attempts >= 1
    /\ call.attempts < call.threshold
    /\ call.error_streak = 0


\* C35: every invocation of retry_api_call terminates: it calls func at most
\* retries times and then returns a result (possibly None) or raises the
\* retries-exhausted error.
C35_Terminates ==
    /\ [](call.attempts <= Retries)
    /\ (call.pc = "try") ~>
           (/\ call.pc = "idle"
            /\ call.outcome \in {"result", "skipped", "empty", "tripped", "raised"})

\* An invocation has ended with the retries-exhausted error after retries
\* calls of func, each followed by a backoff sleep.
C35_Witness ==
    /\ call.pc = "idle"
    /\ call.outcome = "raised"
    /\ call.attempts = Retries
    /\ call.backoffs = Retries
    /\ call.cooldowns = 0


\* C39: with CIRCUIT_BREAKER_THRESHOLD <= retries, retry_api_call never
\* raises the retries-exhausted RuntimeError: the loop is never exhausted,
\* so a run of consecutive transient failures ends in a breaker trip that
\* returns None.
C39_NoRuntimeError ==
    call.threshold <= Retries =>
        /\ call.outcome # "raised"
        /\ call.pc = "try" => call.i < Retries
        /\ (call.pc = "idle" /\ call.attempts = Retries /\ call.backoffs = Retries - 1
               /\ call.outcome \notin {"result", "skipped", "empty"})
               => call.outcome = "tripped"

\* With the defaults (threshold 5, retries 5) an invocation entered with
\* error_streak 0 has failed five times and ended in a breaker trip on the
\* last pass of the loop.
C39_Witness ==
    /\ call.threshold = Retries
    /\ call.pc = "idle"
    /\ call.outcome = "tripped"
    /\ call.attempts = Retries
    /\ call.backoffs = Retries - 1
    /\ call.cooldowns = 1
    /\ call.error_streak = 0


\* C36: in a run that starts with empty windows and processes ticks within
\* one trading day, the windows that load_price_windows builds from the
\* price-history log after a crash at a tick boundary equal, symbol by
\* symbol, the windows held in memory at that boundary.
C36_RestartFidelity ==
    [][obs'.kind = "loaded" =>
           \A s \in WinSymbols : price_windows'[s] = price_windows[s]]_vars

\* The windows were built again after more than SMA_PERIOD ticks of a symbol
\* at differing prices, from a log that begins with a row of the day before.
C36_Witness ==
    /\ obs.kind = "loaded"
    /\ now = MinutesPerDay + 600
    /\ Len(price_history["X"]) > SMA_PERIOD + 1
    /\ price_history["X"][1].timestamp = IsoFormat(Timestamp(600))
    /\ Len(price_windows["X"]) = SMA_PERIOD
    /\ price_windows["X"][1] # price_windows["X"][SMA_PERIOD]
    /\ price_windows["X"][SMA_PERIOD] = price_history["X"][Len(price_history["X"])].price


\* An exception was raised inside the polling cycle and caught by the
\* "except Exception" of the loop.
FaultCaught == obs.kind = "cycle" /\ obs.result = "error"

\* C37: the decision loop never stops on a fault: only a termination signal
\* takes the process out of the loop; after an exception raised inside a
\* cycle the loop is at its top, where the next cycle can begin; and a cycle
\* that has begun comes back to the top of the loop unless a signal ends
\* the process.
C37_LoopNeverStops ==
    /\ [][(pc \in {"loop", "sym", "eod"} /\ pc' = "down") => obs'.kind = "signal"]_vars
    /\ [](FaultCaught => pc = "loop")
    /\ [](pc = "loop" => ENABLED (\E c \in {"ok", "none"}, a \in {Blank, Some(1000)} :
                                      ClockStep(c, a)))
    /\ (pc \in {"sym", "eod"}) ~> (pc \in {"loop", "down"})

\* The pass of a symbol has raised after earlier cycles had priced it, and
\* the loop is at its top again with the process running.
C37_Witness ==
    /\ FaultCaught
    /\ "symbol" \in DOMAIN obs
    /\ Len(price_windows[obs.symbol]) >= 2
    /\ pc = "loop"


\* C38: a polling cycle whose broker clock reports the market as closed
\* submits no order and changes no baseline, window, ledger or trade-log
\* state; it waits at most 60 seconds and comes back to the top of the loop,
\* where the clock is asked again.
C38_ClosedCycleIsIdle ==
    [][(pc = "loop" /\ ~ClockIsOpen(now) /\ obs' # obs /\ obs'.kind = "cycle") =>
          /\ pc' = "loop"
          /\ obs'.result \in {"closed", "error"}
          /\ obs'.result = "closed" => obs'.sleep_sec \in 0..ClosedPollSeconds
          /\ UNCHANGED <<nextId, broker, cash, open_positions, positions_file,
                         trade_log, baselines, baseline_file, price_windows,
                         price_history, sma_state_file, purchase_dates,
                         purchase_dates_file, summary>>]_vars

\* A cycle has found the market closed after the day's cycles had priced the
\* symbol and reset its baseline.
C38_Witness ==
    /\ pc = "loop"
    /\ obs.kind = "cycle"
    /\ obs.result = "closed"
    /\ ~ClockIsOpen(now)
    /\ price_windows["X"] # <<>>
    /\ baselines["X"] # NoBaseline


\* C40: with the ATR unavailable (taken as 0) the stop threshold of a held
\* symbol is its entry price, so a tick with a warm SMA window and no
\* same-day guard sells the position, at the target or at the stop, whenever
\* the price is at or below the entry price or at or above the entry price
\* times SELL_TRIGGER; and the stop threshold of a tick is never negative.
C40_StopWithoutAtr ==
    [][(PricedTick /\ obs'.sma_ready) =>
        LET o == obs'
            trig == Triggers(cfg, o.idx)
            entry == broker[o.symbol].avg_entry
            stop == stop_price(o.base_price, o.atr, trig.sm)
        IN  /\ stop >= 0
            /\ (o.qty > 0 /\ o.atr = 0) =>
                  /\ stop = entry * 1000
                  /\ ( /\ purchase_dates[o.symbol] # DatePT(now)
                       /\ \/ o.price <= entry
                          \/ o.price * 1000 >= entry * trig.st )
                     => o.branch \in {"target", "stop"}]_vars

\* A tick without ATR has sold a held position at the stop, the price being
\* exactly the entry price.
C40_Witness ==
    /\ obs.kind = "tick"
    /\ obs.sma_ready
    /\ obs.qty > 0
    /\ obs.atr = 0
    /\ obs.price = obs.avg_entry
    /\ obs.branch = "stop"

\* A tick whose ATR times the stop multiplier exceeds the base price: the
\* stop threshold is held at 0.
StopClamped ==
    /\ obs.kind = "tick"
    /\ obs.sma_ready
    /\ obs.atr * Triggers(cfg, obs.idx).sm > obs.base_price * 1000

====
